---------------------------- MODULE Spec2Model ----------------------------
(***************************************************************************)
(* State-machine model of local_ai_ocr: the work queue and the preview     *)
(* loader of ControlPanel (src/src/ui/control_panel.py), the processing    *)
(* flow of MainWindow (src/src/ui/main_window.py) and the zoom computation *)
(* of file_handler.extract_pdf_page_bytes (src/src/file_handler.py).       *)
(* The worker threads of the repository whose sources are not part of the  *)
(* tree (OCRWorker, PreCheckWorker, ImageLoaderThread) and the page-range  *)
(* dialog are modelled from the specification.                             *)
(*                                                                         *)
(* Rows and page indices are 0-based as in the code; TLA+ sequences are    *)
(* 1-based, so row r of the queue is image_queue[r + 1].                   *)
(***************************************************************************)
EXTENDS Integers, Sequences, FiniteSets, TLC

VARIABLES
    image_queue,      \* ControlPanel.image_queue (list_widget mirrors it)
    currentRow,       \* list_widget.currentRow(), -1 when nothing is current
    btn_run,          \* ControlPanel.btn_run.isEnabled()
    btn_stop,         \* ControlPanel.btn_stop.isEnabled()
    inputs_enabled,   \* btn_add_img / btn_add_pdf / btn_clear enabled
    pending_queue,    \* MainWindow._pending_queue
    loaders,          \* the ImageLoaderThread objects, by slot
    loader_thread,    \* ControlPanel.loader_thread: a slot, 0 for None
    timer_left,       \* debounce_timer: ms until timeout, -1 when inactive
    since_req,        \* ms elapsed since the last preview request
    tloads,           \* loads started by the debounce timer since that request
    req_row,          \* row of the last preview request, -1 before any
    burst,            \* requests of the current burst (0, 1, or 2 for more)
    precheck,         \* PreCheckWorker thread: "idle" or "running"
    pre_result,       \* pre-flight result of the current start request
    worker_started,   \* a worker was started for the current start request
    w_state,          \* OCRWorker: "none", "running", "completed", "cancelled"
    w_phase,          \* "init", "between" (items) or "item" (streaming)
    w_idx,            \* index of the item the worker is at
    w_read,           \* chunks read from the stream of the current item
    w_stop,           \* the worker's cooperative stop flag
    w_queue,          \* the queue snapshot the worker was created with
    events,           \* events emitted by the worker in the current run
    mainq,            \* queued signals posted to the main thread, FIFO
    stop_clicked,     \* Stop was requested since the current start request
    stop_mid_item,    \* worker.stop() was called while an item was in flight
    page_w, page_h,   \* page size in points (extract_pdf_page_bytes)
    target_dpi,       \* target_dpi argument of extract_pdf_page_bytes
    zoom,             \* computed zoom as a fraction [n, d]; d = 0: not computed
    last_add,         \* what the last add did to the present queue
    pre_msg,          \* error dialog shown for the current start request
    btn_unload,       \* MainWindow.btn_unload.isEnabled()
    warned,           \* warning dialogs shown by the last drop or paste
    offer,            \* the drag over the window, or the clipboard's content
    refused,          \* a drag or a paste was refused since the start request
    img_file,         \* the file given to get_image_bytes
    img_out,          \* what get_image_bytes gave for it
    str_in,           \* a response stream and the offset it is cut at
    str_out,          \* the parser's events for it, whole and cut
    backend,          \* the inference backend: "loaded", "empty", "down", "faulty"
    unl_running,      \* ModelUnloadWorker threads that have not finished
    unl_reqs,         \* unload requests made
    unl_last,         \* outcome of the last unload, "none" once the backend
                      \* has changed otherwise
    unl_log,          \* the message boxes shown by on_unload_finished
    image_boxes,      \* ControlPanel.image_boxes, in the order of storage
    current_processing_index,  \* ControlPanel.current_processing_index
    viewer,           \* the scene of the ImageViewer: image and boxes
    progress_value,   \* progress_bar.value()
    progress_max,     \* progress_bar.maximum()
    done_dialog       \* completion dialogs shown since the start request

uivars == <<image_queue, currentRow, btn_run, btn_stop, inputs_enabled,
            pending_queue>>
pvvars == <<loaders, loader_thread, timer_left, since_req, tloads, req_row,
            burst>>
prevars == <<precheck, pre_result, worker_started>>
wvars == <<w_state, w_phase, w_idx, w_read, w_stop, w_queue, events>>
histvars == <<stop_clicked, stop_mid_item>>
zoomvars == <<page_w, page_h, target_dpi, zoom>>
dropvars == <<warned, offer, refused>>
imgvars == <<img_file, img_out>>
strvars == <<str_in, str_out>>
unlvars == <<backend, unl_running, unl_reqs, unl_last, unl_log>>
viewvars == <<image_boxes, current_processing_index, viewer>>
progvars == <<progress_value, progress_max, done_dialog>>
guivars == <<viewvars, progvars>>
basevars == <<imgvars, strvars, unlvars>>
othervars == <<basevars, guivars>>
restvars == <<dropvars, othervars>>
auxvars == <<last_add, pre_msg, btn_unload, restvars>>
vars == <<uivars, pvvars, prevars, wvars, mainq, histvars, zoomvars,
          auxvars>>

---------------------------------------------------------------------------
(* Bounds of the model. *)

\* longest queue the add operations may build
MaxQueue == 3
\* most chunks (text or box) the backend streams for one item
MaxChunks == 1
\* most loader threads alive (running, or with a signal still queued)
MaxLoaders == 2
\* most files handed to one add operation
MaxFiles == 2

\* most worker signals queued to the main thread and not yet handled
MaxPending == 1
\* characters of text before and after the marker of a stream
MaxText == 2
\* unload requests of a behaviour
MaxUnloads == 3
\* URLs of a drop or of the clipboard
MaxUrls == 2
\* URLs of a drop or of the clipboard whose order is followed
MaxOrder == 3

\* time steps (ms) by which the clock advances
Delays == {100}

---------------------------------------------------------------------------
(* Program constants. *)

\* control_panel.py:44  debounce_timer.setInterval(200)
DebounceInterval == 200
\* file_handler.py:68  MAX_DIM = 3000
MAX_DIM == 3000
\* file_handler.py:74  zoom = target_dpi / 72.0
PdfPointsPerInch == 72

---------------------------------------------------------------------------
(* The files of the environment. *)

ImagePaths == {"/in/A.png", "/in/D.jpg"}
PdfPaths == {"/in/B.pdf", "/in/C.pdf", "/in/E.pdf", "/in/X.pdf"}

\* os.path.basename
basename(f) ==
    CASE f = "/in/A.png" -> "A.png"
      [] f = "/in/D.jpg" -> "D.jpg"
      [] f = "/in/B.pdf" -> "B.pdf"
      [] f = "/in/C.pdf" -> "C.pdf"
      [] f = "/in/E.pdf" -> "E.pdf"
      [] f = "/in/X.pdf" -> "X.pdf"
      [] f = "/in/F.PNG" -> "F.PNG"
      [] f = "/in/N.txt" -> "N.txt"
      [] f = "/in/G" -> "G"
      [] f = "/tmp/local_ai_ocr_clipboard_T.png"
            -> "local_ai_ocr_clipboard_T.png"

\* os.path.splitext(path)[1]
splitext(f) ==
    CASE f = "/in/A.png" -> ".png"
      [] f = "/in/D.jpg" -> ".jpg"
      [] f = "/in/B.pdf" -> ".pdf"
      [] f = "/in/C.pdf" -> ".pdf"
      [] f = "/in/E.pdf" -> ".pdf"
      [] f = "/in/X.pdf" -> ".pdf"
      [] f = "/in/F.PNG" -> ".PNG"
      [] f = "/in/N.txt" -> ".txt"
      [] f = "/in/G" -> ""
      [] f = "/tmp/local_ai_ocr_clipboard_T.png" -> ".png"

\* str.lower, on the extensions above
lower(ext) ==
    CASE ext = ".PNG" -> ".png"
      [] OTHER -> ext

\* config.py:17
IMAGE_EXTENSIONS == {".png", ".jpg", ".jpeg", ".webp", ".heic", ".heif"}

\* /in/X.pdf cannot be opened by fitz; B.pdf has two pages, E.pdf three,
\* C.pdf one.
Unopenable == {"/in/X.pdf"}
PdfPages(f) ==
    CASE f = "/in/B.pdf" -> 2
      [] f = "/in/E.pdf" -> 3
      [] OTHER -> 1

\* a faulty get_pdf_page_count: a document that cannot be opened is
\* counted as a document of one page
get_pdf_page_count_one(f) == IF f \in Unopenable THEN 1 ELSE PdfPages(f)

\* file_handler.get_pdf_page_count: 0 when the document cannot be opened
get_pdf_page_count(f) == IF f \in Unopenable THEN 0 ELSE PdfPages(f)

\* a faulty max(width, height): the smaller side is taken
Max_smaller(a, b) == IF a >= b THEN b ELSE a

Max(a, b) == IF a >= b THEN a ELSE b
Min(a, b) == IF a <= b THEN a ELSE b

---------------------------------------------------------------------------
(* Work queue: ControlPanel.add_image_files / add_pdf_files / clear_queue. *)

\* display name of an image: os.path.basename(f); page 0 marks "no :P suffix"
ImageName(f) == [base |-> basename(f), page |-> 0]
\* display name of a PDF page: f"{base_name} :P{i+1}"
PageName(f, i) == [base |-> basename(f), page |-> i + 1]

\* the tuple (name, f, -1) appended by add_image_files
ImageItem(f) == [name |-> ImageName(f), path |-> f, page_index |-> -1]
\* the tuple (name, f, i) appended by add_pdf_files
PageItem(f, i) == [name |-> PageName(f, i), path |-> f, page_index |-> i]

\* add_image_files, lines 173-176: one item per path, in the given order
RECURSIVE AppendImages(_, _)
AppendImages(q, files) ==
    IF files = <<>> THEN q
    ELSE AppendImages(Append(q, ImageItem(Head(files))), Tail(files))

\* add_pdf_files, lines 206-209: for i in range(start_p - 1, end_p)
RECURSIVE AppendPages(_, _, _, _)
AppendPages(q, f, i, end_p) ==
    IF i >= end_p THEN q
    ELSE AppendPages(Append(q, PageItem(f, i)), f, i + 1, end_p)

\* What PageRangeDialog can answer for a PDF of count pages: rejected, or
\* accepted with a 1-based inclusive range start <= end inside the document.
DialogAnswers(count) ==
    {[accepted |-> FALSE, start |-> 1, end |-> count]} \cup
    {[accepted |-> TRUE, start |-> r[1], end |-> r[2]] :
        r \in {x \in (1..count) \X (1..count) : x[1] <= x[2]}}

\* a faulty add_pdf_files: the 1-based first page of the range is used as
\* the 0-based index the loop starts at
AddOnePdf_from_start(q, f, answer) ==
    LET count == get_pdf_page_count(f) IN
    IF count >= 2
    THEN IF answer.accepted
         THEN AppendPages(q, f, answer.start, answer.end)
         ELSE q
    ELSE AppendPages(q, f, 1 - 1, count)

\* add_pdf_files, lines 192-209, for one file f and the dialog's answer
AddOnePdf(q, f, answer) ==
    LET count == get_pdf_page_count(f) IN
    IF count >= 2
    THEN IF answer.accepted
         THEN AppendPages(q, f, answer.start - 1, answer.end)
         ELSE q
    ELSE AppendPages(q, f, 1 - 1, count)

\* a faulty add_pdf_files: a declined page range dialog ends the loop
\* ("break" for "continue")
RECURSIVE AppendPdfs_break(_, _, _)
AppendPdfs_break(q, files, answers) ==
    IF files = <<>> THEN q
    ELSE IF get_pdf_page_count(Head(files)) >= 2 /\ ~Head(answers).accepted
    THEN q
    ELSE AppendPdfs_break(AddOnePdf(q, Head(files), Head(answers)),
                          Tail(files), Tail(answers))

\* add_pdf_files, lines 191-211: the loop over filepaths
RECURSIVE AppendPdfs(_, _, _)
AppendPdfs(q, files, answers) ==
    IF files = <<>> THEN q
    ELSE AppendPdfs(AddOnePdf(q, Head(files), Head(answers)),
                    Tail(files), Tail(answers))

\* the dialog is shown exactly for the files of two or more pages
DialogShown(f) == get_pdf_page_count(f) >= 2

SeqsUpTo(S, n) == UNION {[1..k -> S] : k \in 1..n}

---------------------------------------------------------------------------
(* Preview loader: the debounce timer and the ImageLoaderThread objects.   *)
(* The helpers below compute on a record p of the preview state, so that   *)
(* a handler can chain them in the order of its statements.                *)

NoLoader ==
    [state |-> "free", row |-> -1, item |-> ImageItem("/in/A.png"),
     origin |-> "none", err_conn |-> FALSE, cancelled |-> FALSE,
     sig |-> "none", delay |-> 0, req |-> -1]

PV == [loaders |-> loaders, lt |-> loader_thread, timer |-> timer_left,
       since |-> since_req, tloads |-> tloads, req_row |-> req_row,
       burst |-> burst]

SetPV(p) ==
    /\ loaders' = p.loaders
    /\ loader_thread' = p.lt
    /\ timer_left' = p.timer
    /\ since_req' = p.since
    /\ tloads' = p.tloads
    /\ req_row' = p.req_row
    /\ burst' = p.burst

\* QThread.isRunning(): run() has not returned yet
isRunning(L, i) == i # 0 /\ L[i].state = "running"

\* a slot is free again once its thread has ended and no signal of it is
\* queued
FreeSlots(L) == {i \in 1..MaxLoaders : L[i].state = "free"}
FreeSlot(L) == CHOOSE i \in FreeSlots(L) : \A j \in FreeSlots(L) : i <= j

\* "if self.loader_thread is not None and self.loader_thread.isRunning():
\*      self.loader_thread.cancel()"   (lines 273-274 and 321-322)
cancel_running(p) ==
    IF isRunning(p.loaders, p.lt)
    THEN [p EXCEPT !.loaders[p.lt].cancelled = TRUE]
    ELSE p

\* "self.loader_thread = ImageLoaderThread(path, page_index); connect;
\*  start()"  (lines 276-279 and 323-325); err_conn: error_occurred is
\* connected to a slot
start_loader(p, row, item, origin, err_conn) ==
    LET i == FreeSlot(p.loaders) IN
    [p EXCEPT !.loaders[i] =
                  [state |-> "running", row |-> row, item |-> item,
                   origin |-> origin, err_conn |-> err_conn,
                   cancelled |-> FALSE, sig |-> "none",
                   delay |-> IF origin = "timer" THEN p.since ELSE 0,
                   req |-> IF origin = "timer" THEN p.req_row ELSE -1],
              !.lt = i]

\* a faulty restart of the debounce timer: a timer that is already active
\* is left running, so the window is measured from the first request
restart_timer_keep(p) ==
    [p EXCEPT !.timer = IF p.timer = -1 THEN DebounceInterval ELSE p.timer,
              !.since = 0, !.tloads = 0,
              !.burst = IF p.timer = -1 THEN 1 ELSE 2]

\* debounce_timer.stop(); debounce_timer.start()  (lines 255-261); a
\* request that finds the timer active continues the burst
restart_timer(p) ==
    [p EXCEPT !.timer = DebounceInterval, !.since = 0, !.tloads = 0,
              !.burst = IF p.timer = -1 THEN 1 ELSE 2]

\* ControlPanel.on_queue_item_changed (lines 238-261) for the new current
\* row; row = -1 stands for "not current" (the list was cleared)
on_queue_item_changed(p, row, qlen) ==
    IF row < 0 \/ row >= qlen THEN p
    ELSE LET c == IF isRunning(p.loaders, p.lt)
                  THEN [cancel_running(p) EXCEPT !.lt = 0]
                  ELSE p
         IN  [restart_timer(c) EXCEPT !.req_row = row]

\* list_widget.setCurrentRow(row): currentItemChanged fires only on a change
setCurrentRow(p, cur, row, qlen) ==
    IF row = cur THEN p ELSE on_queue_item_changed(p, row, qlen)

\* ControlPanel._perform_load_image (lines 263-279), the timer's timeout
\* slot; the single-shot timer is inactive afterwards
perform_load_image(p, cur, q) ==
    LET t == [p EXCEPT !.timer = -1] IN
    IF cur < 0 \/ cur >= Len(q) THEN t
    ELSE [start_loader(cancel_running(t), cur, q[cur + 1], "timer", TRUE)
            EXCEPT !.tloads = t.tloads + 1]

\* "Auto-select first item if nothing selected" (lines 179-180, 213-214)
AutoSelect(p, cur, qlen) ==
    IF cur = -1 /\ qlen > 0 THEN setCurrentRow(p, cur, 0, qlen) ELSE p

AutoSelectRow(cur, qlen) == IF cur = -1 /\ qlen > 0 THEN 0 ELSE cur

\* ControlPanel.update_status (lines 139-151): the Run button's new state
update_status_run(run, stop, qlen) == IF ~stop THEN qlen > 0 ELSE run

---------------------------------------------------------------------------
(* The image viewer, the stored bounding boxes and the progress bar.  The  *)
(* bytes of a preview are named by the work item they were rendered from.  *)

\* nothing is shown: the scene is empty
NoImage == [path |-> "", page_index |-> -2]
EmptyScene == [image |-> NoImage, boxes |-> <<>>]

\* ImageLoaderThread.run: the bytes of get_image_bytes(path) or of
\* extract_pdf_page_bytes(path, page_index)
Rendered(item) == [path |-> item.path, page_index |-> item.page_index]

\* ImageViewer.display_image: the scene is cleared and shows the image
display_image(v, img) == [image |-> img, boxes |-> <<>>]

\* ImageViewer.draw_box: a rectangle is added to the scene
ImageViewer_draw_box(v, b) == [v EXCEPT !.boxes = Append(@, b)]

\* an entry of image_boxes: the key it is stored under, the index of the
\* item the worker was at when it emitted the box, and whether the box is
\* of a worker that ran before the present one
StoredBox(key, owner) == [key |-> key, owner |-> owner, old |-> FALSE]

\* self.image_boxes[row]
BoxesOf(boxes, row) == SelectSeq(boxes, LAMBDA b : b.key = row)

\* a new worker is created: the boxes stored so far are those of earlier
\* workers
MarkOld(boxes) == [k \in 1..Len(boxes) |-> [boxes[k] EXCEPT !.old = TRUE]]

\* on_image_loaded, lines 291-293: the boxes of the row are drawn again
RECURSIVE DrawAll(_, _)
DrawAll(v, bs) ==
    IF bs = <<>> THEN v
    ELSE DrawAll(ImageViewer_draw_box(v, Head(bs)), Tail(bs))

\* ControlPanel.on_image_loaded (lines 281-295), on the scene v
on_image_loaded(v, boxes, cur, img, row) ==
    IF cur # row THEN v
    ELSE DrawAll(display_image(v, img), BoxesOf(boxes, row))

\* ControlPanel.draw_box (lines 335-353), the slot of box_detected, for a
\* box the worker emitted at item owner
draw_box(owner) ==
    IF current_processing_index = -1
    THEN UNCHANGED <<image_boxes, viewer>>
    ELSE LET b == StoredBox(current_processing_index, owner) IN
         /\ image_boxes' = Append(image_boxes, b)
         /\ viewer' = IF currentRow = current_processing_index
                       THEN ImageViewer_draw_box(viewer, b)
                       ELSE viewer

\* QProgressBar.setValue: a value outside the range is ignored
setValue(value, maximum, v) ==
    IF (v > maximum \/ v < 0) /\ maximum # 0 THEN value ELSE v

\* ControlPanel.increment_progress (lines 356-359)
increment_progress ==
    progress_value' = setValue(progress_value, progress_max,
                               progress_value + 1)

---------------------------------------------------------------------------
(* The initial state: after MainWindow.__init__ / ControlPanel.__init__.   *)

NoZoom == [n |-> 0, d |-> 0]

\* an image of one pixel, as Pillow has it after Image.open: the mode, the
\* pixel's bands, and whether img.info has a 'transparency' entry.  The
\* pixel of a P image is its palette entry (r, g, b, alpha), the alpha
\* being that of the transparency entry, 255 without one.
Img(mode, px, transparency) ==
    [mode |-> mode, px |-> px, transparency |-> transparency]

\* an image file: whether it can be read, how far Pillow gets with it
\* ("ok", "open_fails": Image.open raises, "process_fails": decoding
\* raises in preprocess_image), and the image it encodes
ImageFile(readable, decode, img) ==
    [readable |-> readable, decode |-> decode, img |-> img]

DefaultFile == ImageFile(TRUE, "ok", Img("RGB", <<255, 255, 255>>, FALSE))

\* get_image_bytes has not been called
NoOut == [kind |-> "none"]

\* the backend runs with the model loaded, and no unload has been asked
InitUnload ==
    /\ backend = "loaded"
    /\ unl_running = 0
    /\ unl_reqs = 0
    /\ unl_last = "none"
    /\ unl_log = <<>>

\* a response stream of text, one marker, text, and the number of
\* characters of the marker that the first of two chunks ends with
Stream(before, marker, after, cut) ==
    [before |-> before, marker |-> marker, after |-> after, cut |-> cut]

DefaultStream == Stream(<<>>, <<"[", "1", "1", "]">>, <<>>, 1)

\* the stream has not been parsed
NoParse == [whole |-> <<>>, cut |-> <<>>, done |-> FALSE]

\* no drag is over the window and the clipboard holds nothing of interest
NoOffer == [kind |-> "none", urls |-> <<>>]

\* outcome of an add: files given, files declined in the page range dialog,
\* files of page count 0, page range dialogs shown
NoAdd == [files |-> 0, declined |-> 0, unopened |-> 0, prompts |-> 0]

ImageAddOutcome(files) == [NoAdd EXCEPT !.files = Len(files)]

PdfAddOutcome(files, answers) ==
    LET ks == 1..Len(files) IN
    [files |-> Len(files),
     declined |-> Cardinality({k \in ks : /\ DialogShown(files[k])
                                          /\ ~answers[k].accepted}),
     unopened |-> Cardinality({k \in ks : get_pdf_page_count(files[k]) = 0}),
     prompts |-> Cardinality({k \in ks : DialogShown(files[k])})]

InitUI ==
    /\ image_queue = <<>>
    /\ currentRow = -1
    /\ btn_run = FALSE
    /\ btn_stop = FALSE
    /\ inputs_enabled = TRUE
    /\ pending_queue = <<>>
    /\ loaders = [i \in 1..MaxLoaders |-> NoLoader]
    /\ loader_thread = 0
    /\ timer_left = -1
    /\ since_req = DebounceInterval
    /\ tloads = 0
    /\ req_row = -1
    /\ burst = 0
    /\ precheck = "idle"
    /\ pre_result = "none"
    /\ worker_started = FALSE
    /\ w_state = "none"
    /\ w_phase = "init"
    /\ w_idx = 0
    /\ w_read = 0
    /\ w_stop = FALSE
    /\ w_queue = <<>>
    /\ events = <<>>
    /\ mainq = <<>>
    /\ stop_clicked = FALSE
    /\ stop_mid_item = FALSE
    /\ last_add = NoAdd
    /\ pre_msg = "none"
    /\ btn_unload = TRUE
    /\ warned = 0
    /\ offer = NoOffer
    /\ refused = FALSE
    /\ image_boxes = <<>>
    /\ current_processing_index = -1
    /\ viewer = EmptyScene
    /\ progress_value = -1
    /\ progress_max = 100
    /\ done_dialog = 0

Init ==
    /\ InitUI
    /\ img_file = DefaultFile
    /\ img_out = NoOut
    /\ str_in = DefaultStream
    /\ str_out = NoParse
    /\ InitUnload
    /\ page_w = 612
    /\ page_h = 792
    /\ target_dpi = 144
    /\ zoom = NoZoom

---------------------------------------------------------------------------
(* Queue operations of the idle user interface. *)

\* ControlPanel.add_image_files (lines 171-182)
add_image_files(files) ==
    LET q == AppendImages(image_queue, files) IN
    /\ image_queue' = q
    /\ last_add' = ImageAddOutcome(files)
    /\ currentRow' = AutoSelectRow(currentRow, Len(q))
    /\ SetPV(AutoSelect(PV, currentRow, Len(q)))
    /\ btn_run' = update_status_run(btn_run, btn_stop, Len(q))

\* ControlPanel.add_pdf_files (lines 189-216)
add_pdf_files(files, answers) ==
    LET q == AppendPdfs(image_queue, files, answers) IN
    /\ image_queue' = q
    /\ last_add' = PdfAddOutcome(files, answers)
    /\ currentRow' = AutoSelectRow(currentRow, Len(q))
    /\ SetPV(AutoSelect(PV, currentRow, Len(q)))
    /\ btn_run' = update_status_run(btn_run, btn_stop, Len(q))

\* ControlPanel.clear_queue (lines 230-235); list_widget.clear() leaves no
\* current item, and on_queue_item_changed returns at "if not current"
clear_queue ==
    /\ image_queue' = <<>>
    /\ image_boxes' = <<>>
    /\ viewer' = EmptyScene
    /\ last_add' = NoAdd
    /\ currentRow' = -1
    /\ SetPV(on_queue_item_changed(PV, -1, 0))
    /\ btn_run' = update_status_run(btn_run, btn_stop, 0)

\* the Add Images button, enabled by set_processing_state
AddImages(files) ==
    /\ inputs_enabled
    /\ Len(image_queue) + Len(files) <= MaxQueue
    /\ add_image_files(files)
    /\ UNCHANGED <<btn_stop, inputs_enabled, pending_queue, prevars, wvars,
                   mainq, histvars, zoomvars, pre_msg, btn_unload,
                   restvars>>

\* the Add PDF button
AddPdfs(files, answers) ==
    /\ inputs_enabled
    /\ Len(answers) = Len(files)
    /\ \A k \in 1..Len(files) :
           answers[k] \in DialogAnswers(get_pdf_page_count(files[k]))
    /\ Len(AppendPdfs(image_queue, files, answers)) <= MaxQueue
    /\ add_pdf_files(files, answers)
    /\ UNCHANGED <<btn_stop, inputs_enabled, pending_queue, prevars, wvars,
                   mainq, histvars, zoomvars, pre_msg, btn_unload,
                   restvars>>

\* the Clear button
ClearQueue ==
    /\ inputs_enabled
    /\ clear_queue
    /\ UNCHANGED <<btn_stop, inputs_enabled, pending_queue, prevars, wvars,
                   mainq, histvars, zoomvars, pre_msg, btn_unload,
                   dropvars, basevars, current_processing_index, progvars>>

---------------------------------------------------------------------------
(* Selection, the debounce timer and the loader threads. *)

\* the user makes row r current in the list widget (it is never disabled)
SelectRow(r) ==
    /\ r \in 0..(Len(image_queue) - 1)
    /\ r # currentRow
    /\ currentRow' = r
    /\ SetPV(setCurrentRow(PV, currentRow, r, Len(image_queue)))
    /\ UNCHANGED <<image_queue, btn_run, btn_stop, inputs_enabled,
                   pending_queue, prevars, wvars, mainq, histvars, zoomvars, auxvars>>

\* ControlPanel.move_selection_up (lines 219-222)
move_selection_up ==
    /\ Len(image_queue) > 1
    /\ currentRow > 0
    /\ currentRow' = currentRow - 1
    /\ SetPV(setCurrentRow(PV, currentRow, currentRow - 1, Len(image_queue)))
    /\ UNCHANGED <<image_queue, btn_run, btn_stop, inputs_enabled,
                   pending_queue, prevars, wvars, mainq, histvars, zoomvars, auxvars>>

\* ControlPanel.move_selection_down (lines 224-227)
move_selection_down ==
    /\ Len(image_queue) > 1
    /\ currentRow < Len(image_queue) - 1
    /\ currentRow' = currentRow + 1
    /\ SetPV(setCurrentRow(PV, currentRow, currentRow + 1, Len(image_queue)))
    /\ UNCHANGED <<image_queue, btn_run, btn_stop, inputs_enabled,
                   pending_queue, prevars, wvars, mainq, histvars, zoomvars, auxvars>>

\* d ms pass; a running timer times out before time passes its deadline
Advance(d) ==
    /\ timer_left = -1 \/ d <= timer_left
    /\ timer_left' = IF timer_left = -1 THEN -1 ELSE timer_left - d
    /\ since_req' = Min(since_req + d, DebounceInterval)
    /\ UNCHANGED <<uivars, loaders, loader_thread, tloads, req_row, burst,
                   prevars, wvars, mainq, histvars, zoomvars, auxvars>>

\* debounce_timer.timeout -> _perform_load_image
Timeout ==
    /\ timer_left = 0
    /\ FreeSlots(loaders) # {}
    /\ SetPV(perform_load_image(PV, currentRow, image_queue))
    /\ UNCHANGED <<uivars, prevars, wvars, mainq, histvars, zoomvars, auxvars>>

NoName == [base |-> "", page |-> 0]

LoaderSignal(i, sig) ==
    [src |-> "loader", type |-> sig, n |-> i, name |-> NoName]

\* ImageLoaderThread.run ends: a cancelled loader emits nothing; otherwise
\* it emits image_loaded or error_occurred, which is queued to the main
\* thread when a slot is connected and dropped when none is
LoaderFinish(i, outcome) ==
    /\ loaders[i].state = "running"
    /\ IF loaders[i].cancelled \/ (outcome = "error" /\ ~loaders[i].err_conn)
       THEN /\ loaders' = [loaders EXCEPT ![i] = NoLoader]
            /\ mainq' = mainq
       ELSE /\ loaders' = [loaders EXCEPT ![i].state = "emitted",
                                          ![i].sig = outcome]
            /\ mainq' = Append(mainq, LoaderSignal(i, outcome))
    /\ UNCHANGED <<uivars, loader_thread, timer_left, since_req, tloads,
                   req_row, burst, prevars, wvars, histvars, zoomvars, auxvars>>

\* the queued image_loaded / error_occurred signal reaches its slot:
\* on_image_loaded (lines 281-295) or the print of line 278
DeliverLoader ==
    /\ mainq # <<>>
    /\ Head(mainq).src = "loader"
    /\ mainq' = Tail(mainq)
    /\ loaders' = [loaders EXCEPT ![Head(mainq).n] = NoLoader]
    /\ LET l == loaders[Head(mainq).n] IN
       viewer' = IF Head(mainq).type = "loaded"
                 THEN on_image_loaded(viewer, image_boxes, currentRow,
                                      Rendered(l.item), l.row)
                 ELSE viewer
    /\ UNCHANGED <<uivars, loader_thread, timer_left, since_req, tloads,
                   req_row, burst, prevars, wvars, histvars, zoomvars,
                   last_add, pre_msg, btn_unload, dropvars, basevars,
                   image_boxes, current_processing_index, progvars>>

---------------------------------------------------------------------------
(* Processing flow of MainWindow and the worker threads. *)

\* a faulty set_processing_state: the Run button is left as it is
ControlPanel_set_processing_state_runkept(is_processing) ==
    /\ btn_run' = btn_run
    /\ btn_stop' = is_processing
    /\ inputs_enabled' = ~is_processing

\* ControlPanel.set_processing_state (lines 153-162)
ControlPanel_set_processing_state(is_processing) ==
    /\ btn_run' = ~is_processing
    /\ btn_stop' = is_processing
    /\ inputs_enabled' = ~is_processing

\* MainWindow.set_processing_state (lines 257-264)
set_processing_state(is_processing) ==
    /\ ControlPanel_set_processing_state(is_processing)
    /\ btn_unload' = ~is_processing

\* MainWindow.initiate_processing (lines 267-280): the slot of
\* start_requested
initiate_processing(queue) ==
    /\ set_processing_state(TRUE)
    /\ pending_queue' = queue
    /\ precheck' = "running"
    /\ pre_result' = "pending"
    /\ worker_started' = FALSE
    /\ stop_clicked' = FALSE
    /\ pre_msg' = "none"
    /\ last_add' = NoAdd
    /\ refused' = FALSE

\* ControlPanel.on_start_click (lines 298-306), the Run button
on_start_click ==
    /\ btn_run
    /\ IF image_queue = <<>>
       THEN UNCHANGED <<btn_run, btn_stop, inputs_enabled, pending_queue,
                        prevars, stop_clicked, last_add, pre_msg,
                        btn_unload, refused, progvars>>
       ELSE /\ progress_max' = Len(image_queue)
            /\ progress_value' = 0
            /\ done_dialog' = 0
            /\ initiate_processing(image_queue)
    /\ UNCHANGED <<image_queue, currentRow, pvvars, wvars, mainq,
                   stop_mid_item, zoomvars, warned, offer, basevars,
                   viewvars>>

PreflightResults == {"ok", "connection", "model"}

\* PreCheckWorker.run ends and emits finished(success, error_type, msg)
PrecheckFinish(res) ==
    /\ precheck = "running"
    /\ precheck' = "idle"
    /\ mainq' = Append(mainq, [src |-> "precheck", type |-> res, n |-> 0,
                                name |-> NoName])
    /\ UNCHANGED <<uivars, pvvars, pre_result, worker_started, wvars,
                   histvars, zoomvars, auxvars>>

\* a faulty start_processing: the worker is created on the queue without
\* its first item
start_processing_tail(queue) ==
    /\ set_processing_state(TRUE)
    /\ w_state' = "running"
    /\ w_phase' = "init"
    /\ w_idx' = 0
    /\ w_read' = 0
    /\ w_stop' = FALSE
    /\ w_queue' = Tail(queue)
    /\ events' = <<>>
    /\ worker_started' = TRUE
    /\ stop_mid_item' = FALSE
    /\ image_boxes' = MarkOld(image_boxes)

\* MainWindow.start_processing (lines 301-323): a new OCRWorker on queue
start_processing(queue) ==
    /\ set_processing_state(TRUE)
    /\ w_state' = "running"
    /\ w_phase' = "init"
    /\ w_idx' = 0
    /\ w_read' = 0
    /\ w_stop' = FALSE
    /\ w_queue' = queue
    /\ events' = <<>>
    /\ worker_started' = TRUE
    /\ stop_mid_item' = FALSE
    /\ image_boxes' = MarkOld(image_boxes)

\* a faulty on_precheck_finished: one error dialog for every failure
PreflightMessage_same(res) ==
    IF res = "ok" THEN "none" ELSE "msg_connection_error"

\* on_precheck_finished, lines 286-292: the error dialog by error_type
PreflightMessage(res) ==
    CASE res = "connection" -> "msg_connection_error"
      [] res = "model" -> "msg_model_missing"
      [] OTHER -> "none"

\* a faulty on_precheck_finished: the "return" of the failure branch is
\* missing, and the worker is started whatever the result
on_precheck_finished_noreturn(res) ==
    /\ pre_result' = res
    /\ pre_msg' = PreflightMessage(res)
    /\ start_processing(pending_queue)

\* MainWindow.on_precheck_finished (lines 282-299)
on_precheck_finished(res) ==
    /\ pre_result' = res
    /\ pre_msg' = PreflightMessage(res)
    /\ IF res # "ok"
       THEN /\ set_processing_state(FALSE)
            /\ UNCHANGED <<worker_started, wvars, stop_mid_item,
                           image_boxes>>
       ELSE start_processing(pending_queue)

DeliverPrecheck ==
    /\ mainq # <<>>
    /\ Head(mainq).src = "precheck"
    /\ mainq' = Tail(mainq)
    /\ on_precheck_finished(Head(mainq).type)
    /\ UNCHANGED <<image_queue, currentRow, pending_queue, pvvars, precheck,
                   stop_clicked, zoomvars, last_add, dropvars, basevars,
                   current_processing_index, viewer, progvars>>

\* a faulty stop_processing: the worker's stop signal is not raised
stop_processing_noop ==
    w_stop' = w_stop

\* MainWindow.stop_processing (lines 325-331):
\* "if self.worker and self.worker.isRunning(): self.worker.stop()"
stop_processing ==
    w_stop' = IF w_state = "running" THEN TRUE ELSE w_stop

\* ControlPanel.on_stop_click (lines 309-310), the Stop button
on_stop_click ==
    /\ btn_stop
    /\ stop_clicked' = TRUE
    /\ stop_mid_item' =
           (stop_mid_item \/ (w_state = "running" /\ w_phase = "item"))
    /\ stop_processing
    /\ UNCHANGED <<uivars, pvvars, prevars, w_state, w_phase, w_idx, w_read,
                   w_queue, events, mainq, zoomvars, auxvars>>

---------------------------------------------------------------------------
(* The batch worker (OCRWorker.run). *)

\* an event of the worker; ItemStarted and ItemFinished carry the display
\* name of the item, as image_started / image_finished do
Event(type, idx) ==
    [src |-> "worker", type |-> type, n |-> idx,
     name |-> IF type \in {"ItemStarted", "ItemFinished"}
              THEN w_queue[idx + 1].name ELSE NoName]

\* what is connected in start_processing, lines 314-321: every signal of
\* the worker but a batch-started one
Connected(type) == type # "BatchStarted"

\* the main thread has room for another signal of the worker
Room == Len(SelectSeq(mainq, LAMBDA e : e.src = "worker")) < MaxPending

\* the worker emits an event: it is logged, and queued to the main thread
Emit(type, idx) ==
    /\ Connected(type) => Room
    /\ events' = Append(events, Event(type, idx))
    /\ mainq' = IF Connected(type) THEN Append(mainq, Event(type, idx))
                ELSE mainq

\* the run begins
WorkerBegin ==
    /\ w_state = "running"
    /\ w_phase = "init"
    /\ Emit("BatchStarted", -1)
    /\ w_phase' = "between"
    /\ UNCHANGED <<uivars, pvvars, prevars, w_state, w_idx, w_read, w_stop,
                   w_queue, histvars, zoomvars, auxvars>>

\* the stop signal is checked before each new item; else ItemStarted
WorkerStartItem ==
    /\ w_state = "running"
    /\ w_phase = "between"
    /\ w_idx < Len(w_queue)
    /\ IF w_stop
       THEN /\ w_state' = "cancelled"
            /\ UNCHANGED <<w_phase, w_read, events, mainq>>
       ELSE /\ Emit("ItemStarted", w_idx)
            /\ w_phase' = "item"
            /\ w_read' = 0
            /\ w_state' = w_state
    /\ UNCHANGED <<uivars, pvvars, prevars, w_idx, w_stop, w_queue,
                   histvars, zoomvars, auxvars>>

StreamReads == {"TextChunk", "BoxDetected", "ItemFinished", "Error"}

\* the stop signal is checked at each read of the stream; else the read
\* yields a chunk of text, a completed marker, the end of the stream or a
\* transport error
WorkerRead(kind) ==
    /\ w_state = "running"
    /\ w_phase = "item"
    /\ kind \in {"TextChunk", "BoxDetected"} => w_read < MaxChunks
    /\ IF w_stop
       THEN /\ w_state' = "cancelled"
            /\ UNCHANGED <<w_phase, w_idx, w_read, events, mainq>>
       ELSE /\ Emit(kind, w_idx)
            /\ w_state' = w_state
            /\ IF kind \in {"ItemFinished", "Error"}
               THEN /\ w_phase' = "between"
                    /\ w_idx' = w_idx + 1
                    /\ w_read' = w_read
               ELSE /\ w_read' = w_read + 1
                    /\ UNCHANGED <<w_phase, w_idx>>
    /\ UNCHANGED <<uivars, pvvars, prevars, w_stop, w_queue, histvars,
                   zoomvars, auxvars>>

\* every item has been handled: BatchFinished, and the run is over
WorkerFinishAll ==
    /\ w_state = "running"
    /\ w_phase = "between"
    /\ w_idx = Len(w_queue)
    /\ Emit("BatchFinished", -1)
    /\ w_state' = "completed"
    /\ UNCHANGED <<uivars, pvvars, prevars, w_phase, w_idx, w_read, w_stop,
                   w_queue, histvars, zoomvars, auxvars>>

---------------------------------------------------------------------------
(* The main thread's slots for the worker's signals. *)

\* a faulty on_process_started: the loader that is still running is not
\* cancelled before the new one is started
on_process_started_nocancel(p, index, cur, q) ==
    LET p1 == IF index = 0 /\ cur >= 0 /\ cur < Len(q)
              THEN start_loader(p, cur, q[cur + 1], "batch", FALSE)
              ELSE p
    IN  IF 0 <= index /\ index < Len(q)
        THEN setCurrentRow(p1, cur, index, Len(q))
        ELSE p1

\* ControlPanel.on_process_started (lines 313-330)
on_process_started(p, index, cur, q) ==
    LET p1 == IF index = 0 /\ cur >= 0 /\ cur < Len(q)
              THEN start_loader(cancel_running(p), cur, q[cur + 1],
                                "batch", FALSE)
              ELSE p
    IN  IF 0 <= index /\ index < Len(q)
        THEN setCurrentRow(p1, cur, index, Len(q))
        ELSE p1

\* a faulty on_process_started: the boxes are kept when item 0 starts
on_image_started_keep(index) ==
    /\ SetPV(on_process_started(PV, index, currentRow, image_queue))
    /\ image_boxes' = image_boxes
    /\ current_processing_index' = index
    /\ currentRow' = IF 0 <= index /\ index < Len(image_queue)
                     THEN index ELSE currentRow

\* MainWindow.on_image_started (lines 334-340) with
\* ControlPanel.on_process_started (lines 313-330)
on_image_started(index) ==
    /\ SetPV(on_process_started(PV, index, currentRow, image_queue))
    /\ image_boxes' = IF index = 0 THEN <<>> ELSE image_boxes
    /\ current_processing_index' = index
    /\ currentRow' = IF 0 <= index /\ index < Len(image_queue)
                     THEN index ELSE currentRow

DeliverItemStarted ==
    /\ mainq # <<>>
    /\ Head(mainq).src = "worker"
    /\ Head(mainq).type = "ItemStarted"
    /\ Head(mainq).n = 0 => FreeSlots(loaders) # {}
    /\ mainq' = Tail(mainq)
    /\ on_image_started(Head(mainq).n)
    /\ UNCHANGED <<image_queue, btn_run, btn_stop, inputs_enabled,
                   pending_queue, prevars, wvars, histvars, zoomvars,
                   last_add, pre_msg, btn_unload, dropvars, basevars,
                   viewer, progvars>>

\* a faulty slot of error_occurred: the error also stops the worker
on_error_occurred_abort ==
    w_stop' = TRUE

\* the slot of error_occurred (line 317): the text is appended to the
\* output panel, nothing else
on_error_occurred ==
    UNCHANGED w_stop

DeliverError ==
    /\ mainq # <<>>
    /\ Head(mainq).src = "worker"
    /\ Head(mainq).type = "Error"
    /\ mainq' = Tail(mainq)
    /\ on_error_occurred
    /\ UNCHANGED <<uivars, pvvars, prevars, w_state, w_phase, w_idx, w_read,
                   w_queue, events, histvars, zoomvars, auxvars>>

\* MainWindow.on_image_finished (lines 342-356)
on_image_finished == increment_progress

\* stream_chunk -> append_text, box_detected -> draw_box,
\* image_finished -> on_image_finished
DeliverOutput ==
    /\ mainq # <<>>
    /\ Head(mainq).src = "worker"
    /\ Head(mainq).type \in {"TextChunk", "BoxDetected", "ItemFinished"}
    /\ mainq' = Tail(mainq)
    /\ IF Head(mainq).type = "BoxDetected"
       THEN draw_box(Head(mainq).n)
       ELSE UNCHANGED <<image_boxes, viewer>>
    /\ IF Head(mainq).type = "ItemFinished"
       THEN on_image_finished
       ELSE UNCHANGED progress_value
    /\ UNCHANGED <<uivars, pvvars, prevars, wvars, histvars, zoomvars,
                   last_add, pre_msg, btn_unload, dropvars, basevars,
                   current_processing_index, progress_max, done_dialog>>

\* a faulty on_finished: the completion dialog is shown whatever the
\* progress
on_finished_always ==
    /\ btn_run' = update_status_run(TRUE, FALSE, Len(image_queue))
    /\ btn_stop' = FALSE
    /\ inputs_enabled' = TRUE
    /\ btn_unload' = TRUE
    /\ done_dialog' = done_dialog + 1

\* MainWindow.on_finished (lines 358-373)
on_finished ==
    /\ btn_run' = update_status_run(TRUE, FALSE, Len(image_queue))
    /\ btn_stop' = FALSE
    /\ inputs_enabled' = TRUE
    /\ btn_unload' = TRUE
    /\ done_dialog' = IF progress_value = progress_max
                      THEN done_dialog + 1 ELSE done_dialog

DeliverBatchFinished ==
    /\ mainq # <<>>
    /\ Head(mainq).src = "worker"
    /\ Head(mainq).type = "BatchFinished"
    /\ mainq' = Tail(mainq)
    /\ on_finished
    /\ UNCHANGED <<image_queue, currentRow, pending_queue, pvvars, prevars,
                   wvars, histvars, zoomvars, last_add, pre_msg, dropvars,
                   basevars, viewvars, progress_value, progress_max>>

---------------------------------------------------------------------------
(* file_handler.preprocess_image and get_image_bytes, with the Pillow      *)
(* operations they call, on images of one pixel.                           *)

\* Pillow, Paste.c: BLEND8(mask, in1, in2) = DIV255(in1*(255-mask) +
\* in2*mask), DIV255(a) = ((a + 128) + ((a + 128) >> 8)) >> 8
DIV255(a) == ((a + 128) + ((a + 128) \div 256)) \div 256
BLEND8(mask, in1, in2) == DIV255(in1 * (255 - mask) + in2 * mask)

\* Image.convert('RGBA')
convert_RGBA(img) ==
    CASE img.mode = "RGBA" -> Img("RGBA", img.px, FALSE)
      [] img.mode = "LA" ->
            Img("RGBA", <<img.px[1], img.px[1], img.px[1], img.px[2]>>,
                FALSE)
      [] img.mode = "P" -> Img("RGBA", img.px, FALSE)

\* Image.convert('RGB')
convert_RGB(img) ==
    CASE img.mode = "L" ->
            Img("RGB", <<img.px[1], img.px[1], img.px[1]>>, FALSE)
      [] img.mode = "LA" ->
            Img("RGB", <<img.px[1], img.px[1], img.px[1]>>, FALSE)
      [] img.mode \in {"P", "PA", "RGBA", "RGB"} ->
            Img("RGB", <<img.px[1], img.px[2], img.px[3]>>, FALSE)

\* Image.new('RGB', size, color)
Image_new_RGB(color) == Img("RGB", color, FALSE)

\* background.paste(img, mask=mask): img is converted to the mode of
\* background, and blended into it by the mask
paste(background, img, mask) ==
    LET src == convert_RGB(img) IN
    Img("RGB", [c \in 1..3 |-> BLEND8(mask, background.px[c], src.px[c])],
        FALSE)

\* img.split()[-1]: the last band
split_last(img) == img.px[Len(img.px)]

\* a faulty preprocess_image: the image is pasted without its mask
preprocess_image_nomask(img) ==
    IF \/ img.mode \in {"RGBA", "LA"}
       \/ img.mode = "P" /\ img.transparency
    THEN LET rgba == convert_RGBA(img)
             background == Image_new_RGB(<<255, 255, 255>>)
         IN paste(background, rgba, 255)
    ELSE IF img.mode # "RGB"
    THEN convert_RGB(img)
    ELSE img

\* file_handler.preprocess_image (lines 19-37): the image that is saved
\* as PNG
preprocess_image(img) ==
    IF \/ img.mode \in {"RGBA", "LA"}
       \/ img.mode = "P" /\ img.transparency
    THEN LET rgba == convert_RGBA(img)
             background == Image_new_RGB(<<255, 255, 255>>)
         IN paste(background, rgba, split_last(rgba))
    ELSE IF img.mode # "RGB"
    THEN convert_RGB(img)
    ELSE img

\* img.save(img_buffer, format='PNG'); getvalue(): lossless
PngBytes(img) == [kind |-> "png", image |-> img]

\* f.read(): the content of the file as it is
RawBytes(file) == [kind |-> "raw", decode |-> file.decode, image |-> file.img]

\* a faulty get_image_bytes: no "except"
get_image_bytes_noexcept(file) ==
    IF file.readable /\ file.decode = "ok"
    THEN PngBytes(preprocess_image(file.img))
    ELSE [kind |-> "raise"]

\* file_handler.get_image_bytes (lines 39-48)
get_image_bytes(file) ==
    IF file.readable /\ file.decode = "ok"
    THEN PngBytes(preprocess_image(file.img))
    ELSE IF file.readable
    THEN RawBytes(file)
    ELSE [kind |-> "raise"]

\* the band values the images are built of
Band == {0, 128, 255}

Images ==
    {Img("RGBA", px, FALSE) : px \in Band \X Band \X Band \X Band}
    \cup {Img("LA", px, FALSE) : px \in Band \X Band}
    \cup {Img("P", px, TRUE) : px \in Band \X {0, 255} \X Band \X Band}
    \cup {Img("P", px, FALSE) : px \in Band \X Band \X {0} \X {255}}
    \cup {Img("PA", px, FALSE) : px \in {0, 255} \X Band \X {128} \X Band}
    \cup {Img("L", <<l>>, FALSE) : l \in Band}
    \cup {Img("RGB", px, t) : px \in Band \X Band \X Band,
                              t \in BOOLEAN}

ImageFiles ==
    {ImageFile(r, d, img) :
        r \in BOOLEAN, d \in {"ok", "process_fails"}, img \in Images}
    \cup {ImageFile(r, "open_fails", DefaultFile.img) : r \in BOOLEAN}

\* an item's image is fetched
GetImageBytes ==
    /\ img_out = NoOut
    /\ img_out' = get_image_bytes(img_file)
    /\ UNCHANGED <<uivars, pvvars, prevars, wvars, mainq, histvars,
                   zoomvars, last_add, pre_msg, btn_unload, dropvars,
                   img_file, strvars, unlvars, guivars>>

---------------------------------------------------------------------------
(* The parser of the response stream: feed(chunk) gives the events of a    *)
(* chunk and carries a partial marker over to the next.  A stream is a     *)
(* sequence of characters; a location marker is "[" d d "]" with d a       *)
(* digit, and stands for the grammar of the backend's markers.             *)

Digits == {"1", "2"}

\* the value of a digit
DigitValue(d) == IF d = "1" THEN 1 ELSE 2

\* data begins with a whole marker
StartsWithMarker(data) ==
    /\ Len(data) >= 4
    /\ data[1] = "["
    /\ data[2] \in Digits
    /\ data[3] \in Digits
    /\ data[4] = "]"

\* data is the beginning of a marker, and not a whole one
IsMarkerPrefix(data) ==
    /\ Len(data) \in 1..3
    /\ data[1] = "["
    /\ \A k \in 2..Len(data) : data[k] \in Digits

\* the coordinates a marker encodes
DecodeMarker(data) == <<DigitValue(data[2]), DigitValue(data[3])>>

TextChunk(text) == [type |-> "TextChunk", text |-> text]
BoxDetected(coords) == [type |-> "BoxDetected", coords |-> coords]

\* the text collected so far is emitted, if there is any
EmitText(evs, text) == IF text = <<>> THEN evs ELSE Append(evs, TextChunk(text))

\* a faulty parser: what is left at the end of a chunk is emitted as text
RECURSIVE Scan_nobuffer(_, _, _)
Scan_nobuffer(data, text, evs) ==
    IF data = <<>>
    THEN [events |-> EmitText(evs, text), buffer |-> <<>>]
    ELSE IF StartsWithMarker(data)
    THEN Scan_nobuffer(SubSeq(data, 5, Len(data)), <<>>,
                       Append(EmitText(evs, text),
                              BoxDetected(DecodeMarker(data))))
    ELSE Scan_nobuffer(Tail(data), Append(text, Head(data)), evs)

\* the scan of the carried-over buffer followed by the chunk: a whole
\* marker gives a BoxDetected after the text before it; what may still
\* become a marker is carried over; anything else is text
RECURSIVE Scan(_, _, _)
Scan(data, text, evs) ==
    IF data = <<>>
    THEN [events |-> EmitText(evs, text), buffer |-> <<>>]
    ELSE IF StartsWithMarker(data)
    THEN Scan(SubSeq(data, 5, Len(data)), <<>>,
              Append(EmitText(evs, text), BoxDetected(DecodeMarker(data))))
    ELSE IF IsMarkerPrefix(data)
    THEN [events |-> EmitText(evs, text), buffer |-> data]
    ELSE Scan(Tail(data), Append(text, Head(data)), evs)

\* feed(chunk) of a parser that carries buffer and has emitted evs
feed(st, chunk) ==
    LET r == Scan(st.buffer \o chunk, <<>>, <<>>) IN
    [events |-> st.events \o r.events, buffer |-> r.buffer]

\* the end of the stream: what is carried over is text after all
finish(st) == EmitText(st.events, st.buffer)

\* the events of a stream delivered in the given chunks
RECURSIVE ParseChunks(_, _)
ParseChunks(st, chunks) ==
    IF chunks = <<>> THEN finish(st)
    ELSE ParseChunks(feed(st, Head(chunks)), Tail(chunks))

NewParser == [events |-> <<>>, buffer |-> <<>>]

\* the characters of a stream
StreamText(sm) == sm.before \o sm.marker \o sm.after

\* the two chunks of a stream cut inside its marker
CutChunks(sm) ==
    LET at == Len(sm.before) + sm.cut
        t == StreamText(sm)
    IN <<SubSeq(t, 1, at), SubSeq(t, at + 1, Len(t))>>

\* text without a whole marker: no "]" in it
PlainChars == {"a", "[", "1"}
PlainTexts == UNION {[1..n -> PlainChars] : n \in 0..MaxText}
Markers == {<<"[", d1, d2, "]">> : d1 \in Digits, d2 \in Digits}

Streams ==
    {Stream(b, m, a, c) :
        b \in PlainTexts, m \in Markers, a \in PlainTexts, c \in 1..3}

\* the stream is parsed twice: in one chunk, and in its two chunks
ParseStream ==
    /\ ~str_out.done
    /\ str_out' = [whole |-> ParseChunks(NewParser, <<StreamText(str_in)>>),
                   cut |-> ParseChunks(NewParser, CutChunks(str_in)),
                   done |-> TRUE]
    /\ UNCHANGED <<uivars, pvvars, prevars, wvars, mainq, histvars,
                   zoomvars, last_add, pre_msg, btn_unload, dropvars,
                   imgvars, str_in, unlvars, guivars>>

---------------------------------------------------------------------------
(* Unloading the model: MainWindow.unload_model, on_unload_finished and    *)
(* the ModelUnloadWorker.                                                  *)

Backends == {"loaded", "empty", "down", "faulty"}

\* the outcome of unload on a backend: success also when nothing is
\* loaded, a connection failure when the backend is unreachable, another
\* failure otherwise
UnloadOutcome(b) ==
    CASE b \in {"loaded", "empty"} -> "success"
      [] b = "down" -> "connection"
      [] b = "faulty" -> "other"

\* the (success, message) the worker's finished signal carries
UnloadSignal(outcome) ==
    CASE outcome = "success" ->
            [success |-> TRUE, message |-> "msg_unload_success"]
      [] outcome = "connection" ->
            [success |-> FALSE, message |-> "Failed to connect to Ollama"]
      [] outcome = "other" ->
            [success |-> FALSE, message |-> "Internal Server Error"]

\* message.lower()
lower_message(m) ==
    CASE m = "Failed to connect to Ollama" -> "failed to connect to ollama"
      [] m = "Internal Server Error" -> "internal server error"
      [] OTHER -> m

\* "connect" in m or "connection" in m
has_connect(m) == m = "failed to connect to ollama"

\* MainWindow.unload_model (lines 186-193), the Unload button
unload_model ==
    /\ btn_unload
    /\ unl_reqs < MaxUnloads
    /\ btn_unload' = FALSE
    /\ unl_running' = unl_running + 1
    /\ unl_reqs' = unl_reqs + 1
    /\ UNCHANGED <<uivars, pvvars, prevars, wvars, mainq, histvars,
                   zoomvars, last_add, pre_msg, dropvars, imgvars, strvars,
                   backend, unl_last, unl_log, guivars>>

\* ModelUnloadWorker.run ends: the model is unloaded if it was loaded, and
\* finished(success, message) is emitted
UnloadFinish ==
    /\ unl_running > 0
    /\ unl_running' = unl_running - 1
    /\ LET outcome == UnloadOutcome(backend) IN
       /\ unl_last' = outcome
       /\ mainq' = Append(mainq, [src |-> "unload", type |-> outcome,
                                   n |-> 0, name |-> NoName])
    /\ backend' = IF backend = "loaded" THEN "empty" ELSE backend
    /\ UNCHANGED <<uivars, pvvars, prevars, wvars, histvars, zoomvars,
                   last_add, pre_msg, btn_unload, dropvars, imgvars,
                   strvars, unl_reqs, unl_log, guivars>>

\* a faulty on_unload_finished: a failure that is no connection failure
\* shows nothing
on_unload_finished_silent(success, message) ==
    /\ btn_unload' = TRUE
    /\ unl_log' =
          IF success
          THEN Append(unl_log, [box |-> "information", text |-> message])
          ELSE IF has_connect(lower_message(message))
          THEN Append(unl_log, [box |-> "critical",
                                text |-> "msg_connection_error"])
          ELSE unl_log

\* MainWindow.on_unload_finished (lines 195-208)
on_unload_finished(success, message) ==
    /\ btn_unload' = TRUE
    /\ unl_log' =
          IF success
          THEN Append(unl_log, [box |-> "information", text |-> message])
          ELSE IF has_connect(lower_message(message))
          THEN Append(unl_log, [box |-> "critical",
                                text |-> "msg_connection_error"])
          ELSE Append(unl_log, [box |-> "critical", text |-> message])

DeliverUnload ==
    /\ mainq # <<>>
    /\ Head(mainq).src = "unload"
    /\ mainq' = Tail(mainq)
    /\ LET sig == UnloadSignal(Head(mainq).type) IN
       on_unload_finished(sig.success, sig.message)
    /\ UNCHANGED <<uivars, pvvars, prevars, wvars, histvars, zoomvars,
                   last_add, pre_msg, dropvars, imgvars, strvars, backend,
                   unl_running, unl_reqs, unl_last, guivars>>

\* the backend is stopped, started, breaks, or loads the model for
\* another client
BackendChange(b) ==
    /\ b # backend
    /\ backend' = b
    /\ unl_last' = "none"
    /\ UNCHANGED <<uivars, pvvars, prevars, wvars, mainq, histvars,
                   zoomvars, last_add, pre_msg, btn_unload, dropvars,
                   imgvars, strvars, unl_running, unl_reqs, unl_log,
                   guivars>>

---------------------------------------------------------------------------
(* Drag and drop and clipboard paste (MainWindow).  A URL is a record of   *)
(* isLocalFile() and the path; a drag is over the window, or the clipboard *)
(* holds something, one at a time (offer).                                 *)

Url(path) == [local |-> TRUE, path |-> path]
RemoteUrl(path) == [local |-> FALSE, path |-> path]

\* os.path.splitext(path)[1].lower()
Ext(path) == lower(splitext(path))

\* MainWindow._validate_dropped_files (lines 382-395)
_validate_dropped_files(urls) ==
    [images |-> SelectSeq(urls, LAMBDA u :
                    u.local /\ Ext(u.path) \in IMAGE_EXTENSIONS),
     pdfs |-> SelectSeq(urls, LAMBDA u :
                    /\ u.local
                    /\ Ext(u.path) \notin IMAGE_EXTENSIONS
                    /\ Ext(u.path) = ".pdf"),
     invalid |-> SelectSeq(urls, LAMBDA u :
                    /\ u.local
                    /\ Ext(u.path) \notin IMAGE_EXTENSIONS
                    /\ Ext(u.path) # ".pdf")]

\* the answer slot of a URL that shows no page range dialog
NoAnswer == [accepted |-> FALSE, start |-> 1, end |-> 0]

\* the answers the page range dialogs of a drop can give, one slot per URL
RECURSIVE UrlAnswers(_)
UrlAnswers(urls) ==
    IF urls = <<>> THEN {<<>>}
    ELSE LET u == Head(urls)
             as == IF u.local /\ Ext(u.path) \notin IMAGE_EXTENSIONS
                               /\ Ext(u.path) = ".pdf"
                   THEN DialogAnswers(get_pdf_page_count(u.path))
                   ELSE {NoAnswer}
         IN {<<a>> \o r : a \in as, r \in UrlAnswers(Tail(urls))}

\* a faulty _process_urls: the images collected are added last one first
FlushImages_reversed(st) ==
    IF st.image_batch # <<>>
    THEN [st EXCEPT !.q = AppendImages(@,
                              [k \in 1..Len(st.image_batch) |->
                                  st.image_batch[Len(st.image_batch) + 1 - k]]),
                    !.last = ImageAddOutcome(st.image_batch),
                    !.image_batch = <<>>]
    ELSE st

\* _process_urls, lines 447-449 and 438-440: add_image_files(image_batch)
FlushImages(st) ==
    IF st.image_batch # <<>>
    THEN [st EXCEPT !.q = AppendImages(@, st.image_batch),
                    !.last = ImageAddOutcome(st.image_batch),
                    !.image_batch = <<>>]
    ELSE st

\* a faulty _process_urls: the extension is compared as it is written
ProcessUrl_nolower(st, u, a) ==
    IF ~u.local THEN st
    ELSE IF splitext(u.path) \in IMAGE_EXTENSIONS
    THEN [st EXCEPT !.image_batch = Append(@, u.path),
                    !.file_count = @ + 1]
    ELSE IF splitext(u.path) = ".pdf"
    THEN LET fl == FlushImages(st) IN
         [fl EXCEPT !.q = AppendPdfs(@, <<u.path>>, <<a>>),
                    !.last = PdfAddOutcome(<<u.path>>, <<a>>),
                    !.file_count = @ + 1]
    ELSE [st EXCEPT !.invalid = Append(@, u.path)]

\* _process_urls, lines 429-445: the body of the loop, for the URL u and
\* the answer a of the page range dialog, should one be shown
ProcessUrl(st, u, a) ==
    IF ~u.local THEN st
    ELSE IF Ext(u.path) \in IMAGE_EXTENSIONS
    THEN [st EXCEPT !.image_batch = Append(@, u.path),
                    !.file_count = @ + 1]
    ELSE IF Ext(u.path) = ".pdf"
    THEN LET fl == FlushImages(st) IN
         [fl EXCEPT !.q = AppendPdfs(@, <<u.path>>, <<a>>),
                    !.last = PdfAddOutcome(<<u.path>>, <<a>>),
                    !.file_count = @ + 1]
    ELSE [st EXCEPT !.invalid = Append(@, u.path)]

\* _process_urls, lines 429-449: the loop and the final flush
RECURSIVE ProcessLoop(_, _, _)
ProcessLoop(st, urls, answers) ==
    IF urls = <<>> THEN FlushImages(st)
    ELSE ProcessLoop(ProcessUrl(st, Head(urls), Head(answers)),
                     Tail(urls), Tail(answers))

\* MainWindow._process_urls (lines 423-460).  The add_* calls of one
\* _process_urls select row 0 when the list had no current row and has
\* got an item, and update the Run button, as one call on the final queue
\* does.
_process_urls(urls, answers) ==
    LET st == ProcessLoop([q |-> image_queue, image_batch |-> <<>>,
                           invalid |-> <<>>, file_count |-> 0,
                           last |-> last_add], urls, answers)
        called == st.file_count > 0
    IN
    /\ Len(st.q) <= MaxQueue
    /\ image_queue' = st.q
    /\ last_add' = st.last
    /\ currentRow' = IF called THEN AutoSelectRow(currentRow, Len(st.q))
                     ELSE currentRow
    /\ SetPV(IF called THEN AutoSelect(PV, currentRow, Len(st.q)) ELSE PV)
    /\ btn_run' = IF called
                  THEN update_status_run(btn_run, btn_stop, Len(st.q))
                  ELSE btn_run
    /\ warned' = IF st.invalid # <<>> THEN 1 ELSE 0

\* MainWindow.dragEnterEvent (lines 397-412): the drag is accepted when no
\* run is in progress and a file of a valid type is among the URLs; an
\* ignored drag gets no dragMove and no drop
DragEnter(urls) ==
    /\ offer = NoOffer
    /\ offer' = IF btn_stop THEN offer
                ELSE LET v == _validate_dropped_files(urls) IN
                     IF v.images # <<>> \/ v.pdfs # <<>>
                     THEN [kind |-> "drag", urls |-> urls]
                     ELSE offer
    /\ refused' = (refused \/ btn_stop)
    /\ UNCHANGED <<uivars, pvvars, prevars, wvars, mainq, histvars,
                   zoomvars, last_add, pre_msg, btn_unload, warned,
                   othervars>>

\* MainWindow.dragLeaveEvent (lines 419-421)
DragLeave ==
    /\ offer.kind = "drag"
    /\ offer' = NoOffer
    /\ UNCHANGED <<uivars, pvvars, prevars, wvars, mainq, histvars,
                   zoomvars, last_add, pre_msg, btn_unload, warned,
                   refused,
                   othervars>>

\* MainWindow.dropEvent (lines 462-470)
Drop ==
    /\ offer.kind = "drag"
    /\ offer' = NoOffer
    /\ \E answers \in UrlAnswers(offer.urls) :
          _process_urls(offer.urls, answers)
    /\ UNCHANGED <<btn_stop, inputs_enabled, pending_queue, prevars, wvars,
                   mainq, histvars, zoomvars, pre_msg, btn_unload, refused,
                   othervars>>

\* something is copied to the clipboard, in another application: files
\* (kind "urls") or a bitmap (kind "image")
Copy(kind, urls) ==
    /\ offer = NoOffer
    /\ offer' = [kind |-> kind, urls |-> urls]
    /\ UNCHANGED <<uivars, pvvars, prevars, wvars, mainq, histvars,
                   zoomvars, last_add, pre_msg, btn_unload, warned,
                   refused,
                   othervars>>

\* a faulty paste_from_clipboard: the test of the Stop button is missing
paste_from_clipboard_unguarded ==
    IF offer.kind = "urls"
    THEN \E answers \in UrlAnswers(offer.urls) :
            _process_urls(offer.urls, answers)
    ELSE /\ Len(image_queue) < MaxQueue
         /\ add_image_files(<<"/tmp/local_ai_ocr_clipboard_T.png">>)
         /\ UNCHANGED warned

\* MainWindow.paste_from_clipboard (lines 479-500)
paste_from_clipboard ==
    IF btn_stop
    THEN UNCHANGED <<image_queue, last_add, currentRow, pvvars, btn_run,
                     warned>>
    ELSE IF offer.kind = "urls"
    THEN \E answers \in UrlAnswers(offer.urls) :
            _process_urls(offer.urls, answers)
    ELSE /\ Len(image_queue) < MaxQueue
         /\ add_image_files(<<"/tmp/local_ai_ocr_clipboard_T.png">>)
         /\ UNCHANGED warned

\* MainWindow.keyPressEvent (lines 473-477): Ctrl+V; the clipboard is
\* taken as consumed, a second paste being a second Copy and Paste
Paste ==
    /\ offer.kind \in {"urls", "image"}
    /\ offer' = NoOffer
    /\ paste_from_clipboard
    /\ refused' = (refused \/ btn_stop)
    /\ UNCHANGED <<btn_stop, inputs_enabled, pending_queue, prevars, wvars,
                   mainq, histvars, zoomvars, pre_msg, btn_unload,
                   othervars>>

---------------------------------------------------------------------------
(* file_handler.extract_pdf_page_bytes: the zoom of the rendering matrix.  *)
(* Zoom factors are fractions n/d with d > 0, compared by cross            *)
(* multiplication; page sizes are whole points.                            *)

Frac(n, d) == [n |-> n, d |-> d]
\* k * f > m, for integers k and m
FracMulGt(k, f, m) == k * f.n > m * f.d
FracLt(a, b) == a.n * b.d < b.n * a.d
\* Python's max(a, b): a unless b is greater
FracMax(a, b) == IF FracLt(a, b) THEN b ELSE a

\* "zoom = max(zoom, 0.5)", line 79
MinZoom == Frac(1, 2)

\* a faulty zoom: the clamp "zoom = max(zoom, 0.5)" is missing
extract_pdf_page_zoom_noclamp(width, height, dpi) ==
    LET zoom0 == Frac(dpi, PdfPointsPerInch)
    IN  IF FracMulGt(width, zoom0, MAX_DIM)
           \/ FracMulGt(height, zoom0, MAX_DIM)
        THEN Frac(MAX_DIM, Max(width, height))
        ELSE zoom0

\* extract_pdf_page_bytes, lines 66-79
extract_pdf_page_zoom(width, height, dpi) ==
    LET zoom0 == Frac(dpi, PdfPointsPerInch)
        zoom1 == IF FracMulGt(width, zoom0, MAX_DIM)
                    \/ FracMulGt(height, zoom0, MAX_DIM)
                 THEN Frac(MAX_DIM, Max(width, height))
                 ELSE zoom0
    IN  FracMax(zoom1, MinZoom)

\* page sizes and resolutions the pages are rendered with
PageSides == {200, 1500, 1501, 3000, 6000, 7000}
Resolutions == {30, 72, 144, 300}

\* a page is rendered: the zoom is computed from its size and the dpi
RenderPage ==
    /\ zoom = NoZoom
    /\ zoom' = extract_pdf_page_zoom(page_w, page_h, target_dpi)
    /\ UNCHANGED <<uivars, pvvars, prevars, wvars, mainq, histvars,
                   page_w, page_h, target_dpi, auxvars>>

---------------------------------------------------------------------------
(* Specifications.  The handlers and thread steps above are shared; each   *)
(* specification fixes what the environment (the user, the clock, the      *)
(* backend) offers, so that the part of the program it exercises is        *)
(* explored exhaustively.                                                  *)

\* the steps of the loader threads and the delivery of their signals
LoaderSteps ==
    \/ \E i \in 1..MaxLoaders : \E o \in {"loaded", "error"} :
         LoaderFinish(i, o)
    \/ DeliverLoader

\* the steps of a run that every specification with a run takes
RunSteps ==
    \/ DeliverPrecheck
    \/ WorkerBegin
    \/ WorkerStartItem
    \/ WorkerFinishAll
    \/ DeliverItemStarted
    \/ DeliverOutput
    \/ DeliverBatchFinished

\* no start has been requested yet: the queue is still being built
Building == pre_result = "none"

\* no worker has been created yet: no start was requested, or the
\* pre-flight check of every start request has failed
NoWorkerYet == w_state = "none"

\* file f has no item in the queue yet
NotQueued(f) == \A k \in 1..Len(image_queue) : image_queue[k].path # f

(* Spec: the processing flow.  The queue is built from an image and then   *)
(* pages of a PDF, each added at most once, before the first start         *)
(* request; the pre-flight check may                                       *)
(* fail either way, and the start is requested again after a failure; one *)
(* worker runs; the backend may stream text and markers, end the           *)
(* stream or fail on any item; Stop may be clicked whenever it is enabled. *)
(* The debounce timer does not time out: no step of the flow reads it.     *)
Next ==
    \/ Building /\ image_queue = <<>> /\ AddImages(<<"/in/A.png">>)
    \/ Building /\ NotQueued("/in/B.pdf")
                /\ \E a \in DialogAnswers(2) : AddPdfs(<<"/in/B.pdf">>, <<a>>)
    \/ NoWorkerYet /\ on_start_click
    \/ RunSteps
    \/ LoaderSteps
    \/ \E res \in PreflightResults : PrecheckFinish(res)
    \/ on_stop_click
    \/ \E kind \in StreamReads : WorkerRead(kind)
    \/ DeliverError

Spec == Init /\ [][Next]_vars

(* SpecPreview: the preview loader.  The queue is built from one image and *)
(* then a second, and                                                      *)
(* may be cleared before the first start request; the user changes the     *)
(* selection at any time; time passes and the debounce timer times out;    *)
(* the loads started by the timer succeed, and the load started when the  *)
(* worker begins item 0 succeeds or fails; one run passes the pre-flight   *)
(* check and every item finishes, so that the worker's ItemStarted signals *)
(* move the selection.                                                     *)
NextPreview ==
    \/ Building /\ image_queue = <<>> /\ AddImages(<<"/in/A.png">>)
    \/ Building /\ Len(image_queue) = 1 /\ AddImages(<<"/in/D.jpg">>)
    \/ Building /\ ClearQueue
    \/ \E r \in 0..(MaxQueue - 1) : SelectRow(r)
    \/ \E d \in Delays : Advance(d)
    \/ Timeout
    \/ \E i \in 1..MaxLoaders : LoaderFinish(i, "loaded")
    \/ \E i \in 1..MaxLoaders :
          loaders[i].origin = "batch" /\ LoaderFinish(i, "error")
    \/ DeliverLoader
    \/ NoWorkerYet /\ on_start_click
    \/ RunSteps
    \/ PrecheckFinish("ok")
    \/ WorkerRead("ItemFinished")

SpecPreview == Init /\ [][NextPreview]_vars

(* SpecQueue: the work queue.  Images are added several at a time and PDFs *)
(* one at a time, with any answer of the page-range dialog; the queue is   *)
(* cleared and the selection moved; no run is requested.                   *)
NextQueue ==
    \/ \E files \in SeqsUpTo(ImagePaths, MaxFiles) : AddImages(files)
    \/ \E f \in PdfPaths : \E a \in DialogAnswers(get_pdf_page_count(f)) :
         AddPdfs(<<f>>, <<a>>)
    \/ ClearQueue
    \/ \E r \in 0..(MaxQueue - 1) : SelectRow(r)
    \/ move_selection_up
    \/ move_selection_down

SpecQueue == Init /\ [][NextQueue]_vars

(* SpecZoom: extract_pdf_page_bytes is called on a page of any of the     *)
(* sizes above with any of the resolutions.                                *)
InitZoom ==
    /\ InitUI
    /\ page_w \in PageSides
    /\ page_h \in PageSides
    /\ target_dpi \in Resolutions
    /\ zoom = NoZoom
    /\ img_file = DefaultFile
    /\ img_out = NoOut
    /\ str_in = DefaultStream
    /\ str_out = NoParse
    /\ InitUnload

NextZoom == RenderPage

SpecZoom == InitZoom /\ [][NextZoom]_vars

\* Adding several PDF files in one operation: the file dialog returns up
\* to MaxFiles distinct paths, in ascending or in descending order of the
\* names, and each page range dialog any answer.  The files are added to a
\* new queue or after one image.
PdfRank(f) ==
    CASE f = "/in/B.pdf" -> 1
      [] f = "/in/C.pdf" -> 2
      [] f = "/in/E.pdf" -> 3
      [] f = "/in/X.pdf" -> 4

PdfLists ==
    {s \in SeqsUpTo(PdfPaths, MaxFiles) :
        \/ \A i, j \in 1..Len(s) : i < j => PdfRank(s[i]) < PdfRank(s[j])
        \/ \A i, j \in 1..Len(s) : i < j => PdfRank(s[i]) > PdfRank(s[j])}

RECURSIVE AnswerSeqs(_)
AnswerSeqs(files) ==
    IF files = <<>> THEN {<<>>}
    ELSE {<<a>> \o r :
            a \in DialogAnswers(get_pdf_page_count(Head(files))),
            r \in AnswerSeqs(Tail(files))}

NextAdd ==
    \/ image_queue = <<>> /\ AddImages(<<"/in/A.png">>)
    \/ /\ Len(image_queue) <= 1
       /\ \E files \in PdfLists : \E answers \in AnswerSeqs(files) :
             AddPdfs(files, answers)
    \/ ClearQueue

SpecAdd == Init /\ [][NextAdd]_vars

\* get_image_bytes on every file of ImageFiles
InitImage ==
    /\ InitUI
    /\ page_w = 612
    /\ page_h = 792
    /\ target_dpi = 144
    /\ zoom = NoZoom
    /\ img_file \in ImageFiles
    /\ img_out = NoOut
    /\ str_in = DefaultStream
    /\ str_out = NoParse
    /\ InitUnload

NextImage == GetImageBytes

SpecImage == InitImage /\ [][NextImage]_vars

\* Drops and pastes of up to MaxUrls URLs: images, one of them with an
\* upper-case extension, PDFs of one and of two pages, a text file, a file
\* without an extension, and a URL that is no local file.  They come to a
\* new queue or after one image.
DropUrls ==
    {Url("/in/A.png"), Url("/in/F.PNG"), Url("/in/N.txt"), Url("/in/G"),
     Url("/in/C.pdf"), Url("/in/B.pdf"), RemoteUrl("http://h/R.png")}

UrlLists == SeqsUpTo(DropUrls, MaxUrls)

NextDrop ==
    \/ image_queue = <<>> /\ AddImages(<<"/in/D.jpg">>)
    \/ ClearQueue
    \/ Len(image_queue) <= 1 /\ \E urls \in UrlLists : DragEnter(urls)
    \/ DragLeave
    \/ Drop
    \/ Len(image_queue) <= 1 /\ \E urls \in UrlLists : Copy("urls", urls)
    \/ Len(image_queue) <= 1 /\ Copy("image", <<>>)
    \/ Paste

SpecDrop == Init /\ [][NextDrop]_vars

\* Unload requests, with a backend that changes, and start requests whose
\* pre-flight check fails as the backend has it
NextUnload ==
    \/ image_queue = <<>> /\ AddImages(<<"/in/A.png">>)
    \/ on_start_click
    \/ PrecheckFinish(IF backend = "down" THEN "connection" ELSE "model")
    \/ DeliverPrecheck
    \/ unload_model
    \/ UnloadFinish
    \/ DeliverUnload
    \/ \E b \in Backends : BackendChange(b)

SpecUnload == Init /\ [][NextUnload]_vars

\* the parser on every stream of Streams
InitParse ==
    /\ InitUI
    /\ page_w = 612
    /\ page_h = 792
    /\ target_dpi = 144
    /\ zoom = NoZoom
    /\ img_file = DefaultFile
    /\ img_out = NoOut
    /\ str_in \in Streams
    /\ str_out = NoParse
    /\ InitUnload

NextParse == ParseStream

SpecParse == InitParse /\ [][NextParse]_vars

\* The inputs of the queue are tried at any time, during runs too: a
\* drag, a paste, and the buttons (Add for a first image and a PDF after
\* it, Clear), before, during and after one run.  No button is clicked
\* while a drag is over the window, the mouse being held.
InputUrls == {<<Url("/in/N.txt"), Url("/in/D.jpg")>>}

NoDrag == offer.kind # "drag"

NextInput ==
    \/ NoDrag /\ image_queue = <<>> /\ AddImages(<<"/in/A.png">>)
    \/ NoDrag /\ Len(image_queue) = 1
              /\ \E a \in DialogAnswers(1) : AddPdfs(<<"/in/C.pdf">>, <<a>>)
    \/ NoDrag /\ ClearQueue
    \/ NoDrag /\ Building /\ on_start_click
    \/ NoDrag /\ on_stop_click
    \/ \E urls \in InputUrls : DragEnter(urls)
    \/ DragLeave
    \/ Drop
    \/ \E urls \in InputUrls : Copy("urls", urls)
    \/ Copy("image", <<>>)
    \/ Paste
    \/ \E res \in PreflightResults : PrecheckFinish(res)
    \/ DeliverPrecheck
    \/ WorkerBegin
    \/ WorkerStartItem
    \/ WorkerRead("ItemFinished")
    \/ WorkerFinishAll
    \/ DeliverItemStarted
    \/ DeliverOutput
    \/ DeliverBatchFinished

SpecInput == Init /\ [][NextInput]_vars

(* SpecView: the viewer of the idle user interface.  The Add Images button *)
(* puts the image A into the empty queue; the image file D is copied to the *)
(* clipboard and pasted with Ctrl+V, into the empty queue or after one      *)
(* item, which shows no dialog; the queue is cleared and built again; the   *)
(* user changes the selection; time passes, the debounce timer times out,   *)
(* and the loads succeed or fail.                                           *)
NextView ==
    \/ image_queue = <<>> /\ AddImages(<<"/in/A.png">>)
    \/ Len(image_queue) <= 1 /\ Copy("urls", <<Url("/in/D.jpg")>>)
    \/ Paste
    \/ ClearQueue
    \/ \E r \in 0..(MaxQueue - 1) : SelectRow(r)
    \/ \E d \in Delays : Advance(d)
    \/ Timeout
    \/ LoaderSteps

SpecView == Init /\ [][NextView]_vars

\* nothing is in flight: no signal waits in the main thread's queue, no
\* loader thread is alive and the debounce timer is inactive
Settled ==
    /\ mainq = <<>>
    /\ FreeSlots(loaders) = 1..MaxLoaders
    /\ timer_left = -1

(* SpecBoxes: runs, one after another, with bounding boxes.  While nothing  *)
(* is in flight, the queue is built from the images A and D, or cleared,    *)
(* and a start is requested; the pre-flight check passes or finds the model *)
(* missing; the backend streams box markers and ends the stream of every    *)
(* item; time passes, the debounce timer times out and every load           *)
(* succeeds.  Stop is not clicked.                                          *)
NextBoxes ==
    \/ Settled /\ image_queue = <<>> /\ AddImages(<<"/in/A.png">>)
    \/ Settled /\ Len(image_queue) = 1 /\ AddImages(<<"/in/D.jpg">>)
    \/ Settled /\ ClearQueue
    \/ Settled /\ on_start_click
    \/ RunSteps
    \/ \E d \in Delays : Advance(d)
    \/ Timeout
    \/ \E i \in 1..MaxLoaders : LoaderFinish(i, "loaded")
    \/ DeliverLoader
    \/ \E res \in {"ok", "model"} : PrecheckFinish(res)
    \/ \E kind \in {"BoxDetected", "ItemFinished"} : WorkerRead(kind)

SpecBoxes == Init /\ [][NextBoxes]_vars

(* SpecOrder: drops and pastes of up to MaxOrder files, among them two      *)
(* images, a PDF of two pages and a text file, onto a queue of at most one  *)
(* item; the queue may be cleared.                                          *)
OrderUrls ==
    {Url("/in/A.png"), Url("/in/D.jpg"), Url("/in/B.pdf"), Url("/in/N.txt")}

OrderLists == SeqsUpTo(OrderUrls, MaxOrder)

NextOrder ==
    \/ ClearQueue
    \/ Len(image_queue) <= 1 /\ \E urls \in OrderLists : DragEnter(urls)
    \/ Drop
    \/ Len(image_queue) <= 1 /\ \E urls \in OrderLists : Copy("urls", urls)
    \/ Paste

SpecOrder == Init /\ [][NextOrder]_vars

(* SpecBusy: one run and the Unload button.  An image is queued, a start   *)
(* is requested once, the pre-flight check passes and the worker handles    *)
(* the item; Unload is clicked whenever it is enabled, and each unload      *)
(* worker finishes at any time.                                             *)
NextBusy ==
    \/ image_queue = <<>> /\ AddImages(<<"/in/A.png">>)
    \/ NoWorkerYet /\ on_start_click
    \/ PrecheckFinish("ok")
    \/ RunSteps
    \/ WorkerRead("ItemFinished")
    \/ unload_model
    \/ UnloadFinish
    \/ DeliverUnload

SpecBusy == Init /\ [][NextBusy]_vars

---------------------------------------------------------------------------
(* Properties of the batch worker's event stream (checked under Spec).     *)

\* the events of the log of one of the given types
EventsOf(types) == SelectSeq(events, LAMBDA e : e.type \in types)
\* how many events of a type the log holds for item i
EventCount(type, i) ==
    Len(SelectSeq(events, LAMBDA e : e.type = type /\ e.n = i))
HasEvent(type) == \E k \in 1..Len(events) : events[k].type = type
StreamTypes == {"ItemStarted", "TextChunk", "BoxDetected"}
EndTypes == {"ItemFinished", "Error"}

\* event e may directly follow event prev in a run over snapshot
C1_Follows(prev, e, snapshot) ==
    CASE e.type = "ItemStarted" ->
            /\ e.n \in 0..(Len(snapshot) - 1)
            /\ e.name = snapshot[e.n + 1].name
            /\ \/ e.n = 0 /\ prev.type = "BatchStarted"
               \/ e.n > 0 /\ prev.type \in EndTypes /\ prev.n = e.n - 1
      [] e.type \in {"TextChunk", "BoxDetected"} ->
            prev.type \in StreamTypes /\ prev.n = e.n
      [] e.type \in EndTypes ->
            /\ prev.type \in StreamTypes /\ prev.n = e.n
            /\ e.type = "ItemFinished" => e.name = snapshot[e.n + 1].name
      [] e.type = "BatchFinished" ->
            \/ Len(snapshot) = 0 /\ prev.type = "BatchStarted"
            \/ prev.type \in EndTypes /\ prev.n = Len(snapshot) - 1
      [] OTHER -> FALSE

\* BatchStarted, then ItemStarted(i, name), ItemFinished(i, name) for each
\* item of snapshot in order, then BatchFinished; chunks and markers left out
C1_AllSucceed(snapshot) ==
    <<[type |-> "BatchStarted", n |-> -1, name |-> NoName]>>
    \o [k \in 1..(2 * Len(snapshot)) |->
          [type |-> IF k % 2 = 1 THEN "ItemStarted" ELSE "ItemFinished",
           n |-> (k - 1) \div 2,
           name |-> snapshot[((k - 1) \div 2) + 1].name]]
    \o <<[type |-> "BatchFinished", n |-> -1, name |-> NoName]>>

C1_Outline ==
    [k \in 1..Len(EventsOf({"BatchStarted", "ItemStarted", "ItemFinished",
                            "Error", "BatchFinished"})) |->
       LET e == EventsOf({"BatchStarted", "ItemStarted", "ItemFinished",
                          "Error", "BatchFinished"})[k]
       IN  [type |-> e.type, n |-> e.n, name |-> e.name]]

\* C1: over the queue snapshot of the start request, the worker's events
\* are BatchStarted first, then one block per item in increasing index -
\* ItemStarted with the item's index and display name, any chunks and box
\* markers of that item, then ItemFinished or Error of that item - nothing
\* of item i+1 before item i has ended, and BatchFinished last, after the
\* last item; when every item succeeds the outline is exactly
\* BatchStarted, ItemStarted(0), ItemFinished(0), ..., BatchFinished.
C1_EventsSequentialPerItem ==
    worker_started =>
        /\ events # <<>> => events[1].type = "BatchStarted"
        /\ \A k \in 2..Len(events) :
              C1_Follows(events[k - 1], events[k], pending_queue)
        /\ (w_state = "completed" /\ ~HasEvent("Error")) =>
              C1_Outline = C1_AllSucceed(pending_queue)

\* a run over [A.png, B.pdf :P1, B.pdf :P2] completed with every item
\* successful, with text and box markers streamed
C1_Witness ==
    /\ w_state = "completed"
    /\ pending_queue = <<ImageItem("/in/A.png"), PageItem("/in/B.pdf", 0),
                         PageItem("/in/B.pdf", 1)>>
    /\ C1_Outline = C1_AllSucceed(pending_queue)
    /\ HasEvent("TextChunk")
    /\ HasEvent("BoxDetected")

\* C2: when no stop is requested, an item that fails has its ItemStarted,
\* exactly one Error and no ItemFinished; the failure does not end the run:
\* the worker is neither stopped nor cancelled, and a completed run has, for
\* every item in queue order, ItemStarted followed by ItemFinished or Error.
C2_ErrorDoesNotAbort ==
    (worker_started /\ ~stop_clicked) =>
        /\ ~w_stop
        /\ w_state # "cancelled"
        /\ \A i \in 0..(Len(pending_queue) - 1) :
              /\ EventCount("Error", i) <= 1
              /\ EventCount("Error", i) = 1 =>
                    /\ EventCount("ItemStarted", i) = 1
                    /\ EventCount("ItemFinished", i) = 0
        /\ w_state = "completed" =>
              LET s == EventsOf({"ItemStarted", "ItemFinished", "Error"})
              IN  /\ Len(s) = 2 * Len(pending_queue)
                  /\ \A i \in 0..(Len(pending_queue) - 1) :
                        /\ s[2 * i + 1].type = "ItemStarted"
                        /\ s[2 * i + 1].n = i
                        /\ s[2 * i + 2].type \in EndTypes
                        /\ s[2 * i + 2].n = i

\* of three items the second failed, the others finished, no stop
C2_Witness ==
    /\ w_state = "completed"
    /\ ~stop_clicked
    /\ Len(pending_queue) = 3
    /\ EventCount("Error", 1) = 1
    /\ EventCount("ItemFinished", 0) = 1
    /\ EventCount("ItemFinished", 2) = 1

\* C3: once Stop has been clicked while the worker is in the middle of an
\* item, the stop signal is raised, no further event is emitted, the run
\* never completes and never emits BatchFinished, and once cancelled it
\* stays cancelled.
C3_Step ==
    /\ (stop_mid_item' /\ ~stop_mid_item) => w_stop'
    /\ (stop_mid_item /\ w_stop) =>
          /\ events' = events
          /\ w_state' \in {"running", "cancelled"}
          /\ w_state = "cancelled" => w_state' = "cancelled"
    /\ w_state' = "cancelled" => ~HasEvent("BatchFinished")'

C3_StopEndsRun == [][C3_Step]_vars

\* the run was cancelled in the middle of the second item
C3_Witness ==
    /\ w_state = "cancelled"
    /\ stop_mid_item
    /\ w_idx = 1
    /\ events[Len(events)].n = 1
    /\ events[Len(events)].type \in StreamTypes

\* C4: a worker exists for the current start request only if the pre-flight
\* check of that request reported success; while the check is pending, and
\* after it failed, no worker has been started and none is running, and
\* after a failure the UI is idle again.
C4_WorkerOnlyAfterPreflight ==
    /\ worker_started => pre_result = "ok"
    /\ pre_result = "pending" => ~worker_started /\ w_state # "running"
    /\ pre_result \in {"connection", "model"} =>
          /\ ~worker_started
          /\ w_state # "running"
          /\ ~btn_stop

\* the worker runs after a successful pre-flight check
C4_Witness ==
    /\ worker_started
    /\ pre_result = "ok"
    /\ w_state = "running"
    /\ HasEvent("ItemStarted")

\* C5: after Stop has been clicked for the current request, while it was
\* enabled, the worker starts no further item.
C5_StopNeverLost ==
    [][(stop_clicked /\ stop_clicked') =>
          ~(/\ Len(events') > Len(events)
            /\ events'[Len(events')].type = "ItemStarted")]_vars

---------------------------------------------------------------------------
(* Properties of the preview loader (checked under SpecPreview).           *)

\* the loaders the debounce timer has started and that have not ended
TimerLoads ==
    {i \in 1..MaxLoaders :
        loaders[i].state # "free" /\ loaders[i].origin = "timer"}

\* the renders in flight: running and not cancelled
InFlight ==
    {i \in 1..MaxLoaders :
        loaders[i].state = "running" /\ ~loaders[i].cancelled}

\* C6 as stated: once the window after the last request of a burst has
\* elapsed, exactly one load has been performed for the burst.
C6_EveryBurstLoadsOnce ==
    (req_row # -1 /\ timer_left = -1) => tloads = 1

\* C6, amended: each request restarts the 200 ms window, which is measured
\* from the most recent request; no load is performed while the window is
\* open; when it elapses with an item still current, exactly one load has
\* been performed, and every load of the timer started 200 ms after the
\* last request, for the last-requested row.  (When the queue was cleared
\* during the window the timer times out without a load.)
C6_DebouncedLoad ==
    /\ tloads <= 1
    /\ timer_left # -1 =>
          /\ tloads = 0
          /\ burst >= 1
          /\ since_req = DebounceInterval - timer_left
    /\ (req_row # -1 /\ timer_left = -1 /\ currentRow # -1) => tloads = 1
    /\ \A i \in TimerLoads :
          /\ loaders[i].delay = DebounceInterval
          /\ loaders[i].row = loaders[i].req

\* a burst of at least two requests has ended in one load, of the row
\* requested last, which is still running
C6_Witness ==
    /\ burst = 2
    /\ timer_left = -1
    /\ tloads = 1
    /\ \E i \in TimerLoads :
          /\ loaders[i].state = "running"
          /\ ~loaders[i].cancelled
          /\ loaders[i].row = req_row
          /\ req_row = 1

\* C7: at most one render is running and not cancelled, and it is the one
\* the control panel refers to as its loader thread: whatever starts a
\* loader or requests a preview has cancelled the loader still running.
C7_AtMostOneRender ==
    /\ Cardinality(InFlight) <= 1
    /\ \A i \in InFlight : i = loader_thread

\* at the start of a batch a loader is started while the loader of the
\* debounce timer is still running, and the latter has been cancelled
C7_Witness ==
    \E i \in 1..MaxLoaders : \E j \in InFlight :
        /\ loaders[i].state = "running"
        /\ loaders[i].cancelled
        /\ loaders[i].origin = "timer"
        /\ loaders[j].origin = "batch"

\* C8: a loader that ends without having been cancelled has exactly one of
\* image_loaded / error_occurred queued to its slot, and the queued signal
\* is delivered once; a loader that ends cancelled has nothing queued.
C8_ExactlyOneCallback ==
    [][\A i \in 1..MaxLoaders :
          /\ (loaders[i].state = "running" /\ loaders'[i].state # "running")
                => IF loaders[i].cancelled
                   THEN loaders'[i].state = "free" /\ mainq' = mainq
                   ELSE /\ loaders'[i].state = "emitted"
                        /\ loaders'[i].sig \in {"loaded", "error"}
                        /\ mainq' = Append(mainq,
                                           LoaderSignal(i, loaders'[i].sig))
          /\ (loaders[i].state = "emitted" /\ loaders'[i].state # "emitted")
                => /\ Head(mainq) = LoaderSignal(i, loaders[i].sig)
                   /\ mainq' = Tail(mainq)]_vars

---------------------------------------------------------------------------
(* The zoom of a rendered PDF page (checked under SpecZoom).               *)

\* the zoom the page has been rendered with is the fraction n/d
C9_ZoomIs(n, d) == zoom.n * d = n * zoom.d
\* the larger side of the page
C9_Side == IF page_w >= page_h THEN page_w ELSE page_h
\* z1 of the claim is at least 0.5 when the cap applies: 3000/side >= 1/2
C9_CapAboveMin == 2 * 3000 >= C9_Side

\* C9: the zoom of a page of w x h points rendered at target_dpi is
\* max(z1, 0.5), where z1 = 3000/max(w,h) if w*target_dpi/72 > 3000 or
\* h*target_dpi/72 > 3000, and z1 = target_dpi/72 otherwise; at 144 dpi
\* it is 3000/max(w,h), or 0.5 if that is less, for every page with
\* 2w > 3000 or 2h > 3000, and exactly 2 for every other page.
C9_ZoomFormula ==
    zoom # NoZoom =>
        /\ zoom.d > 0
        /\ IF page_w * target_dpi > 3000 * 72
              \/ page_h * target_dpi > 3000 * 72
           THEN IF C9_CapAboveMin THEN C9_ZoomIs(3000, C9_Side)
                                  ELSE C9_ZoomIs(1, 2)
           ELSE IF 2 * target_dpi >= 72 THEN C9_ZoomIs(target_dpi, 72)
                                        ELSE C9_ZoomIs(1, 2)
        /\ target_dpi = 144 =>
              IF 2 * page_w > 3000 \/ 2 * page_h > 3000
              THEN IF C9_CapAboveMin THEN C9_ZoomIs(3000, C9_Side)
                                     ELSE C9_ZoomIs(1, 2)
              ELSE C9_ZoomIs(2, 1)

\* a page of 7000 x 1501 points has been rendered at 144 dpi: the cap
\* 3000/7000 is below the minimum, and the zoom is 0.5
C9_Witness ==
    /\ zoom # NoZoom
    /\ target_dpi = 144
    /\ page_w = 7000
    /\ page_h = 1501
    /\ C9_ZoomIs(1, 2)

---------------------------------------------------------------------------
(* The add operations of the work queue (checked under SpecQueue).         *)

\* the items of pages start_p..end_p (1-based, inclusive) of the PDF f
C10_Pages(f, start_p, end_p) ==
    [k \in 1..(end_p - start_p + 1) |->
        [name |-> [base |-> basename(f), page |-> start_p + k - 1],
         path |-> f,
         page_index |-> start_p + k - 2]]

\* one item per image path, in the given order
C10_Images(files) ==
    [k \in 1..Len(files) |->
        [name |-> [base |-> basename(files[k]), page |-> 0],
         path |-> files[k],
         page_index |-> -1]]

\* C10: adding a PDF of two or more pages with the accepted range
\* (start, end) appends, after the items the queue holds, the end-start+1
\* items of pages start..end in ascending order, with page_index
\* start-1 .. end-1, the PDF's path and the name "<basename> :P<page>";
\* a PDF of one page is added as one item of page_index 0 whatever the
\* dialog would answer, as the dialog is not shown; adding images appends
\* one item of page_index -1 per path, in the given order.
C10_AddStep ==
    /\ \A f \in PdfPaths \ Unopenable :
          \A a \in DialogAnswers(get_pdf_page_count(f)) :
             (AddPdfs(<<f>>, <<a>>)
                /\ (get_pdf_page_count(f) = 1 \/ a.accepted)) =>
                /\ DialogShown(f) <=> get_pdf_page_count(f) # 1
                /\ image_queue' = image_queue \o
                      (IF get_pdf_page_count(f) = 1
                       THEN C10_Pages(f, 1, 1)
                       ELSE C10_Pages(f, a.start, a.end))
    /\ \A files \in SeqsUpTo(ImagePaths, MaxFiles) :
          AddImages(files) =>
             image_queue' = image_queue \o C10_Images(files)

C10_AppendItems == [][C10_AddStep]_vars

\* pages 2..3 of E.pdf have been appended to a queue that held D.jpg
C10_Witness ==
    image_queue = <<ImageItem("/in/D.jpg"), PageItem("/in/E.pdf", 1),
                    PageItem("/in/E.pdf", 2)>>

---------------------------------------------------------------------------
(* Adding several PDF files at once (checked under SpecAdd).               *)

\* the sequence s without its k-th element
C11_Without(s, k) == SubSeq(s, 1, k - 1) \o SubSeq(s, k + 1, Len(s))

\* the items one PDF of the request is to contribute
C11_One(f, a) ==
    LET n == get_pdf_page_count(f) IN
    IF n = 0 THEN <<>>
    ELSE IF n = 1 THEN C10_Pages(f, 1, 1)
    ELSE IF a.accepted THEN C10_Pages(f, a.start, a.end)
    ELSE <<>>

RECURSIVE C11_Items(_, _)
C11_Items(files, answers) ==
    IF files = <<>> THEN <<>>
    ELSE C11_One(Head(files), Head(answers))
            \o C11_Items(Tail(files), Tail(answers))

\* C11: when PDFs are added in one operation and the page range dialog of
\* one of them is declined, the queue afterwards is the queue before
\* followed by the items of the other files of the request, in the order
\* of the request, exactly as the same request without the declined file
\* gives: the declined file contributes no item and the files after it are
\* still added.
C11_Step ==
    \A files \in PdfLists : \A answers \in AnswerSeqs(files) :
       \A k \in 1..Len(files) :
          (/\ DialogShown(files[k])
           /\ ~answers[k].accepted
           /\ add_pdf_files(files, answers)) =>
                /\ image_queue' = image_queue \o
                      C11_Items(C11_Without(files, k),
                                C11_Without(answers, k))
                /\ image_queue' = AppendPdfs(image_queue,
                                             C11_Without(files, k),
                                             C11_Without(answers, k))

C11_DeclinedPdfSkipped == [][C11_Step]_vars

\* two PDFs were added in one operation, the dialog of one was declined,
\* and the other's pages are in the queue after the image
C11_Witness ==
    /\ last_add.files = MaxFiles
    /\ last_add.declined = 1
    /\ Len(image_queue) >= 2
    /\ image_queue[1].page_index = -1
    /\ image_queue[Len(image_queue)].page_index >= 0

\* C12: get_pdf_page_count gives 0 for a document that cannot be opened;
\* when such a PDF is part of an add, no page range dialog is shown for it
\* (the dialogs shown are those of the other files of two or more pages),
\* and the queue afterwards is the queue before followed by the items of
\* the other files of the request: the file contributes no item, and alone
\* it leaves the queue as it was.
C12_Step ==
    /\ \A f \in Unopenable : get_pdf_page_count(f) = 0
    /\ \A files \in PdfLists : \A answers \in AnswerSeqs(files) :
          \A k \in 1..Len(files) :
             (files[k] \in Unopenable /\ add_pdf_files(files, answers)) =>
                /\ image_queue' = image_queue \o
                      C11_Items(C11_Without(files, k),
                                C11_Without(answers, k))
                /\ Len(files) = 1 => image_queue' = image_queue
                /\ last_add'.unopened = 1
                /\ last_add'.prompts =
                      Cardinality({j \in 1..Len(files) :
                                     j # k /\ PdfPages(files[j]) >= 2})

C12_UnopenablePdfSkipped == [][C12_Step]_vars

\* a PDF that cannot be opened was added together with a PDF of two or
\* more pages, whose dialog was shown and accepted: its pages are queued
C12_Witness ==
    /\ last_add.files = MaxFiles
    /\ last_add.unopened = 1
    /\ last_add.prompts = 1
    /\ last_add.declined = 0
    /\ image_queue # <<>>
    /\ image_queue[Len(image_queue)].page_index >= 1

---------------------------------------------------------------------------
(* The work queue during a run (checked under SpecInput).                  *)

\* a start was requested and the run has not ended: the pre-flight result
\* is awaited, or the worker was started and its BatchFinished has not been
\* handled
C13_InRun ==
    \/ pre_result = "pending"
    \/ /\ pre_result = "ok"
       /\ ~(/\ w_state = "completed"
            /\ \A i \in 1..Len(mainq) : mainq[i].type # "BatchFinished")

\* C13: from the start request until the run ends no step changes the
\* queue: the add and clear buttons are disabled and the Stop button is
\* enabled, which has drags and pastes refused; the snapshots the run works
\* on equal the queue, and an item event of index i bears the name of the
\* queue's item at position i.
C13_Step ==
    C13_InRun =>
       /\ image_queue' = image_queue
       /\ ~inputs_enabled /\ btn_stop
       /\ pending_queue = image_queue
       /\ worker_started =>
             /\ w_queue = image_queue
             /\ \A i \in 1..Len(events) :
                   events[i].type \in {"ItemStarted", "ItemFinished"} =>
                      events[i].name = image_queue[events[i].n + 1].name

C13_QueueFrozenInRun == [][C13_Step]_vars

\* a drag or a paste was refused during a run whose worker has finished an
\* item, and the clipboard holds files
C13_Witness ==
    /\ C13_InRun
    /\ refused
    /\ offer.kind = "urls"
    /\ HasEvent("ItemFinished")

---------------------------------------------------------------------------
(* Failure of the pre-flight check (checked under Spec).                   *)

\* C14: a pre-flight result is ok or a failure of kind connection or
\* model; once a failure has been handled, the error dialog of that kind
\* has been shown (msg_connection_error for connection, msg_model_missing
\* for model), no worker was started for the request, and the user
\* interface is idle: Run enabled on the non-empty queue, Stop disabled,
\* the add and clear buttons and the unload button enabled.
C14_PreflightFailureHandled ==
    /\ pre_result \in {"none", "pending", "ok", "connection", "model"}
    /\ pre_result = "connection" => pre_msg = "msg_connection_error"
    /\ pre_result = "model" => pre_msg = "msg_model_missing"
    /\ pre_result \in {"connection", "model"} =>
          /\ ~worker_started
          /\ precheck = "idle"
          /\ \A i \in 1..Len(mainq) : mainq[i].src # "precheck"
          /\ btn_run /\ image_queue # <<>>
          /\ ~btn_stop
          /\ inputs_enabled
          /\ btn_unload

\* the model was found missing for a start request on a queue of two
\* items, and the user interface is idle again
C14_Witness ==
    /\ pre_result = "model"
    /\ pre_msg = "msg_model_missing"
    /\ Len(pending_queue) = 2
    /\ btn_run /\ ~btn_stop

---------------------------------------------------------------------------
(* Image normalization (checked under SpecImage).                          *)

\* C15: for a file that can be read, get_image_bytes raises nothing and
\* gives one of two results: when Pillow opens and processes the image,
\* the PNG encoding of the flattened RGB image; when the open or the
\* processing fails, the content of the file as it is.
C15_FallbackToRawBytes ==
    (img_out # NoOut /\ img_file.readable) =>
       /\ img_out.kind \in {"png", "raw"}
       /\ img_file.decode = "ok" =>
             /\ img_out.kind = "png"
             /\ img_out.image.mode = "RGB"
             /\ Len(img_out.image.px) = 3
       /\ img_file.decode # "ok" =>
             /\ img_out.kind = "raw"
             /\ img_out.decode = img_file.decode
             /\ img_out.image = img_file.img

\* the processing of a readable RGBA image failed, and the raw content
\* was returned
C15_Witness ==
    /\ img_file.readable
    /\ img_file.decode = "process_fails"
    /\ img_file.img.mode = "RGBA"
    /\ img_out.kind = "raw"

\* the colour of the pixel of an input image, whatever its alpha
C16_Colour(img) ==
    CASE img.mode \in {"L", "LA"} -> <<img.px[1], img.px[1], img.px[1]>>
      [] OTHER -> <<img.px[1], img.px[2], img.px[3]>>

\* the alpha of the pixel of an image with transparency
C16_Alpha(img) == IF img.mode = "LA" THEN img.px[2] ELSE img.px[4]

C16_Transparent(img) ==
    \/ img.mode \in {"RGBA", "LA"}
    \/ img.mode = "P" /\ img.transparency

\* C16: the image that preprocess_image encodes is an RGB image of three
\* bands, whatever the mode of the input.  For an RGBA or LA image and for
\* a P image with a transparency entry, a pixel of alpha 0 is white
\* (255, 255, 255), a pixel of alpha 255 has the colour of the input, and
\* every band of any pixel lies between the input's and white; for the
\* other modes that are not RGB the pixel has the colour of the input; an
\* RGB image is encoded as it is.
C16_FlattenedRGB ==
    (img_out # NoOut /\ img_out.kind = "png") =>
       LET img == img_file.img
           out == img_out.image
       IN
       /\ out.mode = "RGB"
       /\ DOMAIN out.px = 1..3
       /\ \A c \in 1..3 : out.px[c] \in 0..255
       /\ C16_Transparent(img) =>
             /\ C16_Alpha(img) = 0 => out.px = <<255, 255, 255>>
             /\ C16_Alpha(img) = 255 => out.px = C16_Colour(img)
             /\ \A c \in 1..3 :
                   /\ out.px[c] >= C16_Colour(img)[c]
                   /\ out.px[c] <= 255
       /\ (~C16_Transparent(img) /\ img.mode # "RGB") =>
             out.px = C16_Colour(img)
       /\ img.mode = "RGB" => out = img

\* a fully transparent black pixel of an RGBA image has become white
C16_Witness ==
    /\ img_file.img.mode = "RGBA"
    /\ img_file.img.px = <<0, 0, 0, 0>>
    /\ img_out.kind = "png"
    /\ img_out.image.px = <<255, 255, 255>>

---------------------------------------------------------------------------
(* The parser of the response stream (checked under SpecParse).            *)

\* the BoxDetected events among evs, in order
C17_Boxes(evs) == SelectSeq(evs, LAMBDA e : e.type = "BoxDetected")

\* the text of the TextChunk events among the first n of evs, joined
RECURSIVE C17_Text(_, _)
C17_Text(evs, n) ==
    IF n = 0 THEN <<>>
    ELSE C17_Text(evs, n - 1) \o
            (IF evs[n].type = "TextChunk" THEN evs[n].text ELSE <<>>)

\* the position of the first BoxDetected among evs
C17_BoxAt(evs) ==
    CHOOSE k \in 1..Len(evs) : /\ evs[k].type = "BoxDetected"
                               /\ \A j \in 1..(k - 1) :
                                     evs[j].type # "BoxDetected"

\* C17: a stream with one marker, delivered in two chunks cut at any
\* offset inside the marker, gives exactly one BoxDetected, with the
\* coordinates the marker encodes, as the stream delivered in one chunk
\* does; the text of the TextChunk events, joined, is the same in both
\* deliveries, and is the stream without the marker, the text before the
\* BoxDetected being the text before the marker: no part of the marker is
\* emitted as text.
C17_SplitMarkerOneBox ==
    str_out.done =>
       LET coords == <<DigitValue(str_in.marker[2]),
                       DigitValue(str_in.marker[3])>>
           w == str_out.whole
           c == str_out.cut
       IN
       /\ C17_Boxes(w) = <<BoxDetected(coords)>>
       /\ C17_Boxes(c) = <<BoxDetected(coords)>>
       /\ C17_Text(w, Len(w)) = str_in.before \o str_in.after
       /\ C17_Text(c, Len(c)) = C17_Text(w, Len(w))
       /\ C17_Text(w, C17_BoxAt(w)) = str_in.before
       /\ C17_Text(c, C17_BoxAt(c)) = str_in.before

\* a stream was cut after the marker's second character, the text before
\* the marker ending with what a marker begins with
C17_Witness ==
    /\ str_out.done
    /\ str_in.cut = 2
    /\ str_in.before = <<"[", "1">>
    /\ str_in.after = <<"a", "[">>
    /\ Len(C17_Boxes(str_out.cut)) = 1

---------------------------------------------------------------------------
(* Unloading the model (checked under SpecUnload).                         *)

\* unload signals queued to the main thread
C18_Queued == Len(SelectSeq(mainq, LAMBDA e : e.src = "unload"))

\* the message box that presents an outcome
C18_Box(outcome) ==
    CASE outcome = "success" ->
            [box |-> "information", text |-> "msg_unload_success"]
      [] outcome = "connection" ->
            [box |-> "critical", text |-> "msg_connection_error"]
      [] outcome = "other" ->
            [box |-> "critical", text |-> "Internal Server Error"]

\* C18: an unload that follows another, the backend not having changed
\* otherwise in between, has the same outcome: success again when the
\* model is no longer loaded, the same failure again.  Every unload
\* request is answered once: when its finished signal is handled, the
\* Unload button is enabled and one message box is shown, that of the
\* outcome (success, connection error, other error); requests made equal
\* requests answered and in flight, and with none in flight and no run in
\* progress the button is enabled.
C18_Step ==
    /\ (unl_running' = unl_running - 1 /\ unl_last # "none") =>
          unl_last' = unl_last
    /\ (mainq # <<>> /\ Head(mainq).src = "unload" /\ mainq' = Tail(mainq)) =>
          /\ btn_unload'
          /\ unl_log' = Append(unl_log, C18_Box(Head(mainq).type))
    /\ unl_log' # unl_log =>
          (mainq # <<>> /\ Head(mainq).src = "unload" /\ mainq' = Tail(mainq))
    /\ unl_reqs = Len(unl_log) + C18_Queued + unl_running
    /\ (unl_running = 0 /\ C18_Queued = 0 /\ ~btn_stop) => btn_unload

---------------------------------------------------------------------------
(* Files that come by drag and drop or by paste (checked under SpecDrop).  *)

\* the local paths whose lower-cased extension is one of .png, .jpg,
\* .jpeg, .webp, .heic, .heif, and those whose extension is .pdf
C19_ImagePaths ==
    {"/in/A.png", "/in/F.PNG", "/in/D.jpg",
     "/tmp/local_ai_ocr_clipboard_T.png"}
C19_PdfPaths == {"/in/C.pdf", "/in/B.pdf"}

\* the items the URL u of a drop is to give, a being the answer of the
\* page range dialog of a PDF
C19_One(u, a) ==
    IF ~u.local THEN <<>>
    ELSE IF u.path \in C19_ImagePaths THEN C10_Images(<<u.path>>)
    ELSE IF u.path \in C19_PdfPaths THEN C11_One(u.path, a)
    ELSE <<>>

RECURSIVE C19_Items(_, _)
C19_Items(urls, answers) ==
    IF urls = <<>> THEN <<>>
    ELSE C19_One(Head(urls), Head(answers))
            \o C19_Items(Tail(urls), Tail(answers))

\* the local files of the URLs that are neither images nor PDFs
C19_Invalid(urls) ==
    {k \in 1..Len(urls) :
        /\ urls[k].local
        /\ urls[k].path \notin C19_ImagePaths \cup C19_PdfPaths}

\* C19: every item of the queue is of a local file whose lower-cased
\* extension is in the image allow-list or is .pdf.  A drop, and a paste
\* of files, appends the items of the local images and PDFs among its
\* URLs, in the order of the URLs, and nothing for any other URL; the
\* invalid-file warning is shown once when a local file among the URLs is
\* neither, whatever their number, and not at all otherwise.
C19_Step ==
    /\ \A i \in 1..Len(image_queue) :
          image_queue[i].path \in C19_ImagePaths \cup C19_PdfPaths
    /\ (Drop \/ (Paste /\ offer.kind = "urls")) =>
          /\ \E answers \in UrlAnswers(offer.urls) :
                image_queue' = image_queue \o C19_Items(offer.urls, answers)
          /\ warned' = IF C19_Invalid(offer.urls) # {} THEN 1 ELSE 0

---------------------------------------------------------------------------
(* The user interface after a run (checked under Spec).                    *)

\* the run of the current start request has ended, and every signal of its
\* worker has been handled
C20_RunOver ==
    /\ pre_result = "ok"
    /\ w_state \in {"completed", "cancelled"}
    /\ \A i \in 1..Len(mainq) : mainq[i].src # "worker"

\* C20: once a run has ended, completed or cancelled by Stop, and the
\* signals of its worker have been handled, the user interface is idle:
\* Run is enabled on the non-empty queue, Stop is disabled, the add and
\* clear inputs are enabled; the processing state does not stay set.
C20_UIReturnsToIdle ==
    C20_RunOver =>
       /\ btn_run /\ image_queue # <<>>
       /\ ~btn_stop
       /\ inputs_enabled

---------------------------------------------------------------------------
(* The viewer (checked under SpecView).                                    *)

\* the work item at the current row, as a preview names it
C21_Selected ==
    IF currentRow >= 0 /\ currentRow < Len(image_queue)
    THEN Rendered(image_queue[currentRow + 1])
    ELSE NoImage

\* the viewer comes to show an image it did not show before
C21_Displayed == viewer'.image # viewer.image /\ viewer'.image # NoImage

C21_Step == C21_Displayed => viewer'.image = C21_Selected'

\* C21: whenever the bytes of a preview are displayed in the viewer, they
\* were rendered from the work item (source_path, page_index) that is at
\* the current row of the queue at that moment; the result of a load
\* started before a clear of the queue or before a later selection is
\* never displayed for another item that has come to the same row.
C21_DisplayedIsSelected == [][C21_Step]_vars

---------------------------------------------------------------------------
(* The stored bounding boxes (checked under SpecBoxes).                    *)

\* the signals of the worker that wait in the main thread's queue
C22_Queued(type, k) ==
    Len(SelectSeq(mainq, LAMBDA e :
            e.src = "worker" /\ e.type = type /\ e.n = k))

\* the BoxDetected events the present worker emitted at item k that have
\* reached draw_box
C22_Delivered(k) == EventCount("BoxDetected", k) - C22_Queued("BoxDetected", k)

\* the boxes stored under key k that are not of an earlier worker
C22_Stored(k) ==
    Len(SelectSeq(image_boxes, LAMBDA b : b.key = k /\ ~b.old))

\* ItemStarted(0) of the present worker has reached on_image_started
C22_FirstItemStarted ==
    /\ w_state # "none"
    /\ EventCount("ItemStarted", 0) = 1
    /\ C22_Queued("ItemStarted", 0) = 0

C22_Inv ==
    /\ \A i \in 1..Len(image_boxes) : image_boxes[i].key = image_boxes[i].owner
    /\ \A k \in 0..(MaxQueue - 1) : C22_Stored(k) <= C22_Delivered(k)
    /\ C22_FirstItemStarted =>
           \A i \in 1..Len(image_boxes) : ~image_boxes[i].old
    /\ current_processing_index = -1 => image_boxes = <<>>

\* the main thread receives a BoxDetected signal of the worker
C22_Received ==
    /\ mainq # <<>>
    /\ Head(mainq).src = "worker"
    /\ Head(mainq).type = "BoxDetected"
    /\ mainq' = Tail(mainq)

C22_Step ==
    /\ C22_Inv'
    /\ IF C22_Received
       THEN image_boxes' =
                Append(image_boxes, StoredBox(Head(mainq).n, Head(mainq).n))
       ELSE image_boxes' \in {image_boxes, MarkOld(image_boxes), <<>>}
    /\ (image_queue # <<>> /\ image_queue' = <<>>) => image_boxes' = <<>>
    /\ (w_state # "running" /\ w_state' = "running") =>
           \A i \in 1..Len(mainq') : mainq'[i].src # "worker"

\* C22: every bounding box stored for queue position k was emitted by the
\* batch worker between ItemStarted(k) and the next ItemStarted, or the end,
\* of the same run: a box is stored under the index of the item the worker
\* was at when it emitted it, exactly when the main thread receives it, no
\* more boxes are stored for k than the present worker emitted at k and the
\* main thread received, no signal of an earlier
\* worker is pending when a worker is created, nothing is stored before an
\* item has started, and the boxes of earlier runs are gone once item 0 of
\* a run has started and whenever the queue is cleared.
C22_BoxesKeyedByOwner == [][C22_Step]_vars

\* item 0 of a later run has started: the boxes of the run before, one of
\* which is still drawn in the viewer, are stored no more
C22_Witness ==
    /\ w_state = "running"
    /\ C22_FirstItemStarted
    /\ image_boxes = <<>>
    /\ viewer.boxes # <<>>

\* C23: a bounding box is drawn in the viewer only while the viewer shows
\* the image of the item the box was detected for: every box in the scene
\* belongs to the item whose image the scene displays.
C23_BoxesOnOwnerImage ==
    \A i \in 1..Len(viewer.boxes) :
        /\ viewer.boxes[i].owner < Len(image_queue)
        /\ viewer.image = Rendered(image_queue[viewer.boxes[i].owner + 1])

---------------------------------------------------------------------------
(* The controls during processing (checked under SpecBusy).                *)

\* C24: while processing is active, from the start request to the end of
\* the run, the Unload control and the add and clear inputs are disabled,
\* whenever the unload worker's completion is handled.  (Stop is enabled
\* exactly while processing is active; the Settings, language, prompt-mode
\* and header-toggle controls are set by set_processing_state only.)
C24_ControlsDisabledWhileProcessing ==
    btn_stop => (~btn_unload /\ ~inputs_enabled)

---------------------------------------------------------------------------
(* The order of the items of a drop or paste (checked under SpecOrder).    *)

\* the items new follow the URLs urls: f gives for every item the URL it
\* comes from, later items come from the same or from later URLs, the items
\* of one URL are successive pages, and every image has exactly one item
C25_Follows(urls, new, f) ==
    /\ \A j \in 1..Len(new) : new[j].path = urls[f[j]].path
    /\ \A j \in 1..(Len(new) - 1) :
          /\ f[j] <= f[j + 1]
          /\ f[j] = f[j + 1] =>
                /\ new[j].page_index >= 0
                /\ new[j + 1].page_index = new[j].page_index + 1
    /\ \A k \in 1..Len(urls) :
          urls[k].path \in C19_ImagePaths =>
              \E j \in 1..Len(new) :
                  /\ f[j] = k
                  /\ new[j].page_index = -1
                  /\ \A i \in 1..Len(new) : f[i] = k => i = j

C25_InOrder(urls, new) ==
    \E f \in [1..Len(new) -> 1..Len(urls)] : C25_Follows(urls, new, f)

C25_Step ==
    (Drop \/ (Paste /\ offer.kind = "urls")) =>
        /\ Len(image_queue') >= Len(image_queue)
        /\ SubSeq(image_queue', 1, Len(image_queue)) = image_queue
        /\ C25_InOrder(offer.urls,
                       SubSeq(image_queue', Len(image_queue) + 1,
                              Len(image_queue')))

\* C25: the items one drop or paste appends to the queue are in the order
\* of the files in its URL list, the pages of a PDF in ascending order at
\* the place of the PDF: an image that precedes a PDF in the list is queued
\* before the pages of the PDF, an image that follows it after them.
C25_DropKeepsOrder == [][C25_Step]_vars

\* A.png, B.pdf and D.jpg were dropped or pasted, and page 2 of B.pdf was
\* chosen: the page is queued between the images
C25_Witness ==
    /\ offer = NoOffer
    /\ Len(image_queue) = 3
    /\ image_queue[1] = ImageItem("/in/A.png")
    /\ image_queue[2] = PageItem("/in/B.pdf", 1)
    /\ image_queue[3] = ImageItem("/in/D.jpg")

---------------------------------------------------------------------------
(* The bounds of the zoom (checked under SpecZoom).                        *)

\* the larger side of the page, in points
C26_Side == IF page_w >= page_h THEN page_w ELSE page_h
\* the larger rendered side, C26_Side * zoom, exceeds 3000 pixels
C26_OverCap == C26_Side * zoom.n > 3000 * zoom.d

\* C26: a page whose larger side is at most 6000 points is rendered with
\* a larger side of at most 3000 pixels at every target_dpi; the larger
\* rendered side exceeds 3000 pixels only when the zoom is the floor 0.5
\* and the larger side of the page exceeds 6000 points; the zoom is never
\* below 0.5, and it is above target_dpi/72 only when target_dpi/72 < 0.5.
C26_ZoomBounds ==
    zoom # NoZoom =>
        /\ C26_Side <= 6000 => ~C26_OverCap
        /\ C26_OverCap => (zoom.n * 2 = zoom.d /\ C26_Side > 6000)
        /\ 2 * zoom.n >= zoom.d
        /\ zoom.n * 72 > target_dpi * zoom.d => 2 * target_dpi < 72

\* a page of 3000 x 6000 points has been rendered at 300 dpi: the cap
\* gives the zoom 0.5, and the larger rendered side is 3000 pixels
C26_Witness ==
    /\ zoom # NoZoom
    /\ target_dpi = 300
    /\ page_w = 3000
    /\ page_h = 6000
    /\ C26_Side * zoom.n = 3000 * zoom.d

---------------------------------------------------------------------------
(* The progress bar and the completion dialog (checked under Spec).        *)

\* the signals of a type the worker has emitted and the main thread has
\* handled
C27_Received(type) ==
    Len(EventsOf({type}))
      - Len(SelectSeq(mainq, LAMBDA e : e.src = "worker" /\ e.type = type))

\* every item of the worker's queue has produced ItemFinished
C27_AllFinished ==
    \A k \in 0..(Len(w_queue) - 1) : EventCount("ItemFinished", k) = 1

\* C27: from the start request on the maximum of the progress bar is the
\* length of the queue at the start request, and the value is the number
\* of ItemFinished signals received in the run, which never exceeds the
\* maximum; the completion dialog is shown, once, exactly when the run has
\* ended and every item of the queue produced ItemFinished: it is not shown
\* for a cancelled run nor for a run in which an item ended with Error.
C27_ProgressCountsFinished ==
    /\ pre_result # "none" =>
          /\ progress_max = Len(pending_queue)
          /\ progress_max = Len(image_queue)
          /\ progress_value = C27_Received("ItemFinished")
          /\ progress_value <= progress_max
    /\ done_dialog = (IF C27_Received("BatchFinished") = 1 /\ C27_AllFinished
                      THEN 1 ELSE 0)
    /\ (w_state = "cancelled" \/ HasEvent("Error")) => done_dialog = 0

\* a run of two items has ended, one of which ended with Error: the value
\* is 1 of 2, the controls are idle again and no dialog was shown
C27_Witness ==
    /\ C27_Received("BatchFinished") = 1
    /\ HasEvent("Error")
    /\ progress_value = 1
    /\ progress_max = 2
    /\ ~btn_stop
    /\ done_dialog = 0

---------------------------------------------------------------------------
(* The Run and Stop buttons (checked under SpecInput).                     *)

\* C28: whatever was added, cleared, started, stopped, and whatever the
\* pre-flight check and the worker reported, Run and Stop are never both
\* enabled, Run is enabled only while the queue is not empty, and every
\* start request made carried a queue that is not empty.
C28_RunStopExclusive ==
    /\ ~(btn_run /\ btn_stop)
    /\ btn_run => image_queue # <<>>
    /\ pre_result # "none" => pending_queue # <<>>

\* the run has ended and the queue was cleared afterwards: Run and Stop
\* are both disabled
C28_Witness ==
    /\ w_state = "completed"
    /\ pre_result = "ok"
    /\ image_queue = <<>>
    /\ ~btn_run
    /\ ~btn_stop

=============================================================================
